---------------------------- MODULE Spec2Model ----------------------------
(***************************************************************************)
(* A model of dbt-ing's mapping compiler (dbting/xlsx_to_json_mapping.py): *)
(* the worksheet parser, the column normalizer of parse_rows, the          *)
(* duplicate check and the writes of the metadata document.                *)
(*                                                                         *)
(* Text is a sequence of one-character strings, so that lower-casing,      *)
(* substring tests, replacement and formatting are computed, not assumed.  *)
(* A cell of the workbook is None, Txt(text) or Num(n).                    *)
(***************************************************************************)
EXTENDS Integers, Sequences, FiniteSets, TLC

(***************************************************************************)
(* Python values                                                           *)
(***************************************************************************)
None == [k |-> "none"]
Txt(s) == [k |-> "str", s |-> s]
Num(n) == [k |-> "int", n |-> n]
Lst(v) == [k |-> "list", v |-> v]

IsStr(v) == v.k = "str"

\* Python truthiness: None, "", 0 and [] are false.
Truthy(v) ==
    CASE v.k = "none" -> FALSE
      [] v.k = "str" -> v.s # <<>>
      [] v.k = "int" -> v.n # 0
      [] v.k = "list" -> v.v # <<>>

(***************************************************************************)
(* Text                                                                    *)
(***************************************************************************)
UpperChars == <<"A","B","C","D","E","F","G","H","I","J","K","L","M",
                "N","O","P","Q","R","S","T","U","V","W","X","Y","Z">>
LowerChars == <<"a","b","c","d","e","f","g","h","i","j","k","l","m",
                "n","o","p","q","r","s","t","u","v","w","x","y","z">>

LowerChar(c) ==
    IF \E i \in 1..Len(UpperChars) : UpperChars[i] = c
    THEN LowerChars[CHOOSE i \in 1..Len(UpperChars) : UpperChars[i] = c]
    ELSE c

\* str.lower()
Lower(s) == SubSeq([i \in 1..Len(s) |-> LowerChar(s[i])], 1, Len(s))

\* sub in s, for two strings
Contains(s, sub) ==
    \E i \in 0..(Len(s) - Len(sub)) : SubSeq(s, i + 1, i + Len(sub)) = sub

\* s.startswith(p)
StartsWith(s, p) == Len(p) <= Len(s) /\ SubSeq(s, 1, Len(p)) = p

\* A replace that leaves the text as it is
ReplaceNothing(s, a, b) == s

\* s.replace(a, b) for a single character a and a text b
RECURSIVE Replace(_, _, _)
Replace(s, a, b) ==
    IF s = <<>> THEN <<>>
    ELSE (IF Head(s) = a THEN b ELSE <<Head(s)>>) \o Replace(Tail(s), a, b)

RECURSIVE LStrip(_, _)
LStrip(s, chars) ==
    IF s # <<>> /\ Head(s) \in chars THEN LStrip(Tail(s), chars) ELSE s

RECURSIVE RStrip(_, _)
RStrip(s, chars) ==
    IF s # <<>> /\ s[Len(s)] \in chars
    THEN RStrip(SubSeq(s, 1, Len(s) - 1), chars) ELSE s

\* s.strip(chars)
StripChars(s, chars) == RStrip(LStrip(s, chars), chars)

Whitespace == {" ", "\t", "\n"}

\* s.strip()
Strip(s) == StripChars(s, Whitespace)

Digits == <<"0","1","2","3","4","5","6","7","8","9">>

\* str(n) for a natural number
RECURSIVE Str(_)
Str(n) == IF n < 10 THEN <<Digits[n + 1]>>
          ELSE Str(n \div 10) \o <<Digits[(n % 10) + 1]>>

\* str(v) of a cell that is a text or a number
StrOf(v) == IF v.k = "int" THEN Str(v.n) ELSE v.s

\* s.split(sep) for a single character sep: the list of fields
RECURSIVE Split(_, _)
Split(s, sep) ==
    IF \E i \in 1..Len(s) : s[i] = sep
    THEN LET i == CHOOSE j \in 1..Len(s) :
                    s[j] = sep /\ \A m \in 1..(j - 1) : s[m] # sep
         IN <<SubSeq(s, 1, i - 1)>> \o Split(SubSeq(s, i + 1, Len(s)), sep)
    ELSE <<s>>

(***************************************************************************)
(* utils.py                                                                *)
(***************************************************************************)
BOOL_LOOKUP == { <<"y","e","s">>, <<"y">>, <<"t","r","u","e">>, <<"t">>,
                 <<"s","i">>, <<"1">> }

\* A to_bool that knows the number 1 only
to_bool_number(value) == value.k = "int" /\ value.n = 1

\* to_bool: the recognized truthy tokens, case-insensitive; the rest is false
to_bool(value) ==
    CASE value.k = "str" -> Lower(value.s) \in BOOL_LOOKUP
      [] value.k = "int" -> value.n = 1
      [] OTHER -> FALSE

DEFAULT_FIELD_DELIMITER == <<"|">>
\* imported from utils by xlsx_to_json_mapping.py, but not defined there
DEFAULT_PARTITIONS == Lst(<< <<"y","e","a","r">>, <<"m","o","n","t","h">>,
                             <<"d","a","y">> >>)

(***************************************************************************)
(* Table names and paths                                                   *)
(***************************************************************************)
\* re.sub("\..*$", "", s): cut at the first dot
RemoveExtension(s) ==
    IF \E i \in 1..Len(s) : s[i] = "."
    THEN LET i == CHOOSE j \in 1..Len(s) :
                    s[j] = "." /\ \A m \in 1..(j - 1) : s[m] # "."
         IN SubSeq(s, 1, i - 1)
    ELSE s

\* The end of a match of {{[^}]*}} that starts at the head of s, or 0.
JinjaMatchEnd(s) ==
    IF Len(s) >= 4 /\ s[1] = "{" /\ s[2] = "{"
       /\ \E p \in 3..Len(s) : s[p] = "}"
    THEN LET p == CHOOSE q \in 3..Len(s) :
                    s[q] = "}" /\ \A m \in 3..(q - 1) : s[m] # "}"
         IN IF p < Len(s) /\ s[p + 1] = "}" THEN p + 1 ELSE 0
    ELSE 0

\* re.sub("{{[^}]*}}", "", s)
RECURSIVE RemoveJinja(_)
RemoveJinja(s) ==
    IF s = <<>> THEN <<>>
    ELSE IF JinjaMatchEnd(s) > 0
         THEN RemoveJinja(SubSeq(s, JinjaMatchEnd(s) + 1, Len(s)))
         ELSE <<Head(s)>> \o RemoveJinja(Tail(s))

\* The prefix is put before every name
AlwaysPrefixed(t, flow) == flow \o <<"_">> \o t

WithFlowPrefix(t, flow) ==
    IF StartsWith(t, flow \o <<"_">>) THEN t ELSE flow \o <<"_">> \o t

filename_to_source_table(filename, flow) ==
    LET t1 == RemoveExtension(filename)
        t2 == StripChars(Replace(RemoveJinja(t1), "-", <<"_">>),
                         {"_", " ", ".", "-"})
        t3 == StripChars(Replace(Replace(t2, "*", <<>>), "?", <<>>), {"_"})
    IN WithFlowPrefix(Lower(t3), flow)

get_target_table_name(target_table, flow) ==
    WithFlowPrefix(Lower(target_table), flow)

table_to_path(table, flow) ==
    flow \o <<"/">> \o SubSeq(table, Len(flow) + 2, Len(table))

\* os.path.join(a, b) of two texts
PathJoin(a, b) ==
    IF b # <<>> /\ Head(b) = "/" THEN b
    ELSE IF a = <<>> \/ a[Len(a)] = "/" THEN a \o b
    ELSE a \o <<"/">> \o b

(***************************************************************************)
(* Dictionaries: functions from key names to values                        *)
(***************************************************************************)
Has(d, key) == key \in DOMAIN d

\* The function f with every value computed
Evaluated(f) == f @@ <<>>

\* d.get(key)
Get(d, key) == IF key \in DOMAIN d THEN d[key] ELSE None

\* d[key] = v
Put(d, key, v) == (key :> v) @@ d

(***************************************************************************)
(* parse_rows: the data type of one record (lines 335-367)                 *)
(***************************************************************************)
DefaultLength == 255
DefaultPrecision == <<"1","8",",","2">>

T_char == <<"c","h","a","r">>
T_varchar == <<"v","a","r","c","h","a","r">>
T_decimal == <<"d","e","c","i","m","a","l">>
T_float == <<"f","l","o","a","t">>
T_double == <<"d","o","u","b","l","e">>
T_date == <<"d","a","t","e">>
T_timestamp == <<"t","i","m","e","s","t","a","m","p">>
T_boolean == <<"b","o","o","l","e","a","n">>
T_tinyint == <<"t","i","n","y","i","n","t">>
T_smallint == <<"s","m","a","l","l","i","n","t">>
T_integer == <<"i","n","t","e","g","e","r">>
T_bigint == <<"b","i","g","i","n","t">>
T_real == <<"r","e","a","l">>
T_double_precision == T_double \o <<" ">> \o
                      <<"p","r","e","c","i","s","i","o","n">>
T_array_char == <<"a","r","r","a","y","<">> \o T_char \o <<">">>
T_array_varchar == <<"a","r","r","a","y","<">> \o T_varchar \o <<">">>

\* length or default
OrElse(v, default) == IF Truthy(v) THEN v ELSE default

\* The branches on the lower-cased, non-empty col["data_type"]; length is
\* item.get("length").  ("decimal"), ("float") and ("double") are plain
\* strings in the source, so "in" tests for a substring there.
NormalizeDataType(data_type, length) ==
    IF data_type \in {T_char, T_varchar} THEN
        [ok |-> TRUE, format |-> FALSE,
         data_type |-> data_type \o <<"(">>
                       \o StrOf(OrElse(length, Num(DefaultLength))) \o <<")">>]
    ELSE IF Contains(T_decimal, data_type) THEN
        [ok |-> TRUE, format |-> FALSE,
         data_type |-> data_type \o <<"(">>
                       \o Replace(StrOf(OrElse(length, Txt(DefaultPrecision))),
                                  ".", <<",">>)
                       \o <<")">>]
    ELSE IF Contains(T_float, data_type) THEN
        [ok |-> TRUE, format |-> FALSE, data_type |-> T_real]
    ELSE IF Contains(T_double, data_type) THEN
        [ok |-> TRUE, format |-> FALSE, data_type |-> T_double_precision]
    ELSE IF data_type \in {T_date, T_timestamp} THEN
        [ok |-> TRUE, format |-> TRUE, data_type |-> data_type]
    ELSE IF data_type \in {T_boolean, T_tinyint, T_smallint, T_integer,
                           T_bigint, T_float, T_double_precision} THEN
        [ok |-> TRUE, format |-> FALSE, data_type |-> data_type]
    ELSE IF data_type \in {T_array_char, T_array_varchar} THEN
        [ok |-> TRUE, format |-> FALSE,
         data_type |-> RStrip(data_type, {">"}) \o <<"(">>
                       \o StrOf(OrElse(length, Num(DefaultLength)))
                       \o <<")", ">">>]
    ELSE [ok |-> FALSE, format |-> FALSE, data_type |-> data_type]

(***************************************************************************)
(* parse_rows: one iteration of the loop over table_def["columns"]         *)
(* (lines 275-371).  The result names the exception raised ("none" when    *)
(* the record was normalized, "Empty" when it was skipped as a blank       *)
(* line), the row number a MappingException cites, the table definition    *)
(* as the iteration leaves it and the column it produced.                  *)
(***************************************************************************)
Raise(exc, what, row_number, table_def) ==
    [exc |-> exc, what |-> what, row |-> row_number, table_def |-> table_def,
     col |-> <<>>]

\* lines 339-367: t is what the branches on col["data_type"] make of it
ParseItemType(table_def, item, row_number, col, t) ==
    IF col["data_type"] = <<>>
    THEN Raise("MappingException", "missing data_type", row_number, table_def)
    ELSE IF ~t.ok
    THEN Raise("MappingException", "invalid data_type", row_number, table_def)
    ELSE [exc |-> "none", what |-> "", row |-> row_number,
          table_def |-> table_def,
          col |-> IF t.format
                  THEN Put(Put(col, "data_type", t.data_type), "format",
                           Get(item, "length"))
                  ELSE Put(col, "data_type", t.data_type)]

\* lines 334-338: description, data type and flags of the record
ParseItemFlags(table_def, item, row_number, col) ==
    IF ~Has(item, "description")
    THEN Raise("KeyError", "description", 0, table_def)
    ELSE IF ~Has(item, "data_type")
    THEN Raise("KeyError", "data_type", 0, table_def)
    ELSE IF ~IsStr(item["data_type"])
    THEN Raise("AttributeError", "lower", 0, table_def)
    ELSE IF \E key \in {"key", "index", "nullable"} : ~Has(item, key)
    THEN Raise("KeyError", "key", 0, table_def)
    ELSE ParseItemType(table_def, item, row_number,
            [description |-> OrElse(item["description"], Txt(<<>>)),
             data_type |-> Lower(item["data_type"].s),
             key |-> to_bool(item["key"]),
             index |-> to_bool(item["index"]),
             nullable |-> to_bool(item["nullable"])] @@ col,
            NormalizeDataType(Lower(item["data_type"].s), Get(item, "length")))

\* A check of the target column that lets "-" pass
ParseItemNameWithDash(table_def, item, row_number, col, target_column) ==
    IF \E i \in 1..Len(target_column) : target_column[i] \in {".", " "}
    THEN Raise("MappingException", "invalid target_column", row_number,
               table_def)
    ELSE ParseItemFlags(table_def, item, row_number,
                        Put(col, "target_column", target_column))

\* lines 331-333: the lower-cased new_name is the target column
ParseItemName(table_def, item, row_number, col, target_column) ==
    IF \E i \in 1..Len(target_column) : target_column[i] \in {".", " ", "-"}
    THEN Raise("MappingException", "invalid target_column", row_number,
               table_def)
    ELSE ParseItemFlags(table_def, item, row_number,
                        Put(col, "target_column", target_column))

\* lines 329-367: target column, flags and data type of a record whose
\* source fields were accepted; col holds the fields set so far
ParseItemTarget(table_def, item, row_number, col) ==
    IF ~Truthy(Get(item, "new_name"))
    THEN Raise("MappingException", "invalid target_column", row_number,
               table_def)
    ELSE IF ~IsStr(item["new_name"])
    THEN Raise("AttributeError", "lower", 0, table_def)
    ELSE ParseItemName(table_def, item, row_number, col,
                       Lower(item["new_name"].s))

\* A source column that does not count
SourceColumnUncounted(table_def, item, col_number) ==
    IF Get(table_def, "source_format") = Txt(<<"j","s","o","n">>) THEN
        IF ~Has(item, "source_name") THEN [exc |-> "KeyError"]
        ELSE IF ~IsStr(item["source_name"]) THEN [exc |-> "AttributeError"]
        ELSE [exc |-> "none",
              fields |-> [source_column |-> Lower(item["source_name"].s)]]
    ELSE [exc |-> "none", fields |-> [source_column |-> <<"c","o","l","1">>]]

\* col["source_column"] and col["source_formula"], lines 311-316: the
\* fields to add to col, or the exception raised
SourceColumn(table_def, item, col_number) ==
    IF Get(table_def, "source_format") = Txt(<<"j","s","o","n">>) THEN
        IF ~Has(item, "source_name") THEN [exc |-> "KeyError"]
        ELSE IF ~IsStr(item["source_name"]) THEN [exc |-> "AttributeError"]
        ELSE [exc |-> "none",
              fields |-> [source_column |-> Lower(item["source_name"].s)]]
    ELSE IF to_bool(Get(table_def, "use_source_name")) THEN
        IF ~Has(item, "source_name") THEN [exc |-> "KeyError"]
        ELSE [exc |-> "none",
              fields |-> [source_column |-> <<"c","o","l">> \o Str(col_number),
                          source_formula |-> item["source_name"]]]
    ELSE [exc |-> "none",
          fields |-> [source_column |-> <<"c","o","l">> \o Str(col_number)]]

\* A location given on the table definition, or the one derived from the
\* base location and the table name (lines 289-295 and 319-325)
Location(table_def, key, base_key, table, flow) ==
    IF Truthy(Get(table_def, key)) THEN table_def[key].s
    ELSE PathJoin(table_def[base_key].s, table_to_path(table, flow)) \o <<"/">>

\* lines 326-328: the table takes the target fields of the column
ParseItemTargetTable(table_def, item, row_number, col) ==
    ParseItemTarget([target_schema |-> Txt(col["target_schema"]),
                     target_table |-> Txt(col["target_table"]),
                     target_location |-> Txt(col["target_location"])]
                    @@ table_def,
                    item, row_number, col)

\* lines 311-325: sc is the source column of the record
ParseItemSourceColumn(table_def, st, flow, item, row_number, col, sc) ==
    IF sc.exc # "none" THEN Raise(sc.exc, "source_name", 0, table_def)
    ELSE ParseItemTargetTable(table_def, item, row_number,
            [target_schema |-> table_def["target_schema"].s,
             target_table |-> st,
             target_location |-> Location(table_def, "target_location",
                                          "datalake_location", st, flow)]
            @@ sc.fields @@ col)

\* The record is counted whatever source its table has
ParseItemCountUnchecked(table_def, st, flow, item, row_number, col) ==
    ParseItemSourceColumn(
        Put(table_def, "col_number", Num(table_def["col_number"].n + 1)),
        st, flow, item, row_number, col,
        SourceColumn(table_def, item, table_def["col_number"].n + 1))

\* lines 301-310: the record has to agree with its table, and is counted
ParseItemCount(table_def, st, flow, item, row_number, col) ==
    IF Txt(col["source_table"]) # table_def["source_table"]
    THEN Raise("MappingException", "source table mismatch", row_number,
               table_def)
    ELSE IF Txt(col["source_location"]) # table_def["source_location"]
    THEN Raise("MappingException", "source location mismatch", row_number,
               table_def)
    ELSE ParseItemSourceColumn(
            Put(table_def, "col_number", Num(table_def["col_number"].n + 1)),
            st, flow, item, row_number, col,
            SourceColumn(table_def, item, table_def["col_number"].n + 1))

\* The first record sets the source of the table whatever the table holds
ParseItemSourceAlways(table_def, st, flow, item, row_number, col) ==
    ParseItemCount([source_table |-> Txt(col["source_table"]),
                    source_location |-> Txt(col["source_location"]),
                    filename |-> Txt(col["filename"])] @@ table_def,
                   st, flow, item, row_number, col)

\* lines 297-299: the first record sets what the table lacks
ParseItemSource(table_def, st, flow, item, row_number, col) ==
    ParseItemCount(table_def @@ [source_table |-> Txt(col["source_table"]),
                                 source_location |->
                                     Txt(col["source_location"]),
                                 filename |-> Txt(col["filename"])],
                   st, flow, item, row_number, col)

\* lines 280-295: the source fields of the record of source_table
ParseItemFile(table_def, st, flow, item, row_number, source_table) ==
    ParseItemSource(table_def, st, flow, item, row_number,
        [flow |-> flow,
         source_schema |-> table_def["source_schema"].s,
         filename |-> item["file_name"].s,
         source_table |-> source_table,
         source_location |-> Location(table_def, "source_location",
                                      "batch_location", source_table, flow)])

\* An iteration that takes a record without source_name for a blank line too
ParseItemSkipUnnamed(table_def, st, flow, item, row_number) ==
    IF ~Truthy(Get(item, "file_name")) \/ ~Truthy(Get(item, "source_name"))
    THEN Raise("Empty", "", row_number, table_def)
    ELSE IF ~IsStr(item["file_name"])
    THEN Raise("KeyError", "filename", 0, table_def)
    ELSE ParseItemFile(table_def, st, flow, item, row_number,
            filename_to_source_table(item["file_name"].s, flow))

ParseItem(table_def, st, flow, item, row_number) ==
    IF ~Truthy(Get(item, "file_name"))
    THEN Raise("Empty", "", row_number, table_def)
    ELSE IF ~IsStr(item["file_name"])
    THEN Raise("KeyError", "filename", 0, table_def)
    ELSE ParseItemFile(table_def, st, flow, item, row_number,
            filename_to_source_table(item["file_name"].s, flow))

(***************************************************************************)
(* Keys.  A header label or a #CONFIG key is a text of the worksheet; the  *)
(* dictionaries of the model are keyed by the names below, and a text that *)
(* is none of them is the key "other", which the code never reads.         *)
(***************************************************************************)
KeyTable ==
    << <<<<"f","i","l","e","_","n","a","m","e">>, "file_name">>, <<<<"t","a","r","g","e","t","_","t","a","b","l","e">>, "target_table">>,
       <<<<"s","o","u","r","c","e","_","n","a","m","e">>, "source_name">>, <<<<"n","e","w","_","n","a","m","e">>, "new_name">>,
       <<<<"d","e","s","c","r","i","p","t","i","o","n">>, "description">>, <<<<"d","a","t","a","_","t","y","p","e">>, "data_type">>,
       <<<<"l","e","n","g","t","h">>, "length">>, <<<<"k","e","y">>, "key">>, <<<<"i","n","d","e","x">>, "index">>,
       <<<<"n","u","l","l","a","b","l","e">>, "nullable">>, <<<<"s","o","u","r","c","e","_","t","a","b","l","e">>, "source_table">>,
       <<<<"s","o","u","r","c","e","_","f","o","r","m","a","t">>, "source_format">>,
       <<<<"s","o","u","r","c","e","_","l","o","c","a","t","i","o","n">>, "source_location">>,
       <<<<"t","a","r","g","e","t","_","l","o","c","a","t","i","o","n">>, "target_location">>,
       <<<<"p","a","r","t","i","t","i","o","n","s">>, "partitions">>, <<<<"p","a","r","t","i","t","i","o","n","s","_","s","t","y","l","e">>, "partitions_style">>, <<<<"e","x","c","l","u","d","e","_","t","a","b","l","e">>, "exclude_table">>,
       <<<<"u","s","e","_","s","o","u","r","c","e","_","n","a","m","e">>, "use_source_name">>, <<<<"t","a","g","s">>, "tags">>,
       <<<<"c","o","m","p","r","e","s","s","i","o","n","_","t","y","p","e">>, "compression_type">>,
       <<<<"w","h","e","r","e","_","c","o","n","d","i","t","i","o","n">>, "where_condition">>,
       <<<<"f","i","l","e","n","a","m","e">>, "filename">> >>

KeyName(text) ==
    IF \E i \in 1..Len(KeyTable) : KeyTable[i][1] = text
    THEN KeyTable[CHOOSE i \in 1..Len(KeyTable) : KeyTable[i][1] = text][2]
    ELSE "other"

(***************************************************************************)
(* The row handlers (lines 78-106).  A row is a sequence of cells; row[0]  *)
(* of the source is Cell(row, 0).  Each handler gives the exception it     *)
(* raises ("none" when it returns) and what it leaves of the table         *)
(* definition, the header, the active handler and the raw column list.     *)
(***************************************************************************)
InRange(row, i) == i < Len(row)
Cell(row, i) == row[i + 1]

\* value.strip() if isinstance(value, str)
StripCell(v) == IF IsStr(v) THEN Txt(Strip(v.s)) ELSE v

Handled(exc, table_def, header, handler, columns) ==
    [exc |-> exc, table_def |-> table_def, header |-> header,
     handler |-> handler, columns |-> columns]

NoHeader == [k |-> "unset"]

parse_row_config(table_def, header, columns, row) ==
    IF ~InRange(row, 1)                                  \* IndexError
       \/ (Truthy(Cell(row, 1)) /\ ~IsStr(Cell(row, 1))) \* AttributeError
       \/ ~IsStr(Cell(row, 0))                           \* AttributeError
    THEN Handled("MappingException", table_def, header, "parse_row_config",
                 columns)
    ELSE Handled("none",
                 Put(table_def, KeyName(Lower(Strip(Cell(row, 0).s))),
                     IF Truthy(Cell(row, 1)) THEN Txt(Strip(Cell(row, 1).s))
                     ELSE Txt(<<>>)),
                 header, "parse_row_config", columns)

parse_row_where(table_def, header, columns, row) ==
    LET c == Cell(row, 0) IN
    IF Truthy(c) /\ ~IsStr(c)
    THEN Handled("AttributeError", table_def, header, "parse_row_where",
                 columns)
    ELSE LET where_condition == IF Truthy(c) THEN Strip(c.s) ELSE <<>> IN
         Handled("none",
                 IF where_condition # <<>>
                 THEN Put(table_def, "where_condition", Txt(where_condition))
                 ELSE table_def,
                 header, "parse_row_where", columns)

\* dict((h.lower(), i) for i, h in enumerate(row) if h is not None): of two
\* cells with the same label the later one stays
HeaderOf(row) ==
    LET used == {i \in 0..(Len(row) - 1) : Cell(row, i) # None}
        label == Evaluated([i \in used |-> KeyName(Lower(Cell(row, i).s))])
        keys == {label[i] : i \in used}
    IN Evaluated([key \in keys |->
          CHOOSE i \in used :
              /\ label[i] = key
              /\ \A j \in used : label[j] = key => j <= i])

\* The header handler stays the active handler
parse_row_select_header_stays(table_def, header, columns, row) ==
    Handled("none", table_def, HeaderOf(row), "parse_row_select_header",
            columns)

parse_row_select_header(table_def, header, columns, row) ==
    IF \E i \in 0..(Len(row) - 1) : Cell(row, i) # None /\ ~IsStr(Cell(row, i))
    THEN Handled("AttributeError", table_def, header,
                 "parse_row_select_header", columns)
    ELSE Handled("none", table_def, HeaderOf(row), "parse_row_select", columns)

parse_row_select(table_def, header, columns, row) ==
    LET item == Evaluated([h \in DOMAIN header |->
                    IF InRange(row, header[h]) THEN StripCell(Cell(row, header[h]))
                    ELSE None])
    IN Handled("none", table_def, header, "parse_row_select",
               Append(columns, item))


(***************************************************************************)
(* The run's arguments and the workbooks it is given                       *)
(***************************************************************************)
FlowArg == <<"F">>
BatchProfile == <<"b","p">>
DatalakeProfile == <<"d","p">>
BatchLocation == <<"s","3",":","/","/","b">>
DatalakeLocation == <<"s","3",":","/","/","d">>
SourceSchema == <<"s","s">>
TargetSchema == <<"t","s">>

\* Worksheets of a workbook, data rows and #CONFIG/#WHERE rows over all of
\* its worksheets
MaxSheets == 2
MaxRecords == 3
MaxConfig == 1

TypeRow == <<Txt(<<"T","Y","P","E">>)>>
NotesRow == <<Txt(<<"N","o","t","e","s">>)>>
IngestionRow == <<Txt(<<"#","I","N","G","E","S","T","I","O","N">>)>>
OtherTypeRow == <<Txt(<<"#","M","O","D","E","L">>)>>
ConfigDirective == <<Txt(<<"#","C","O","N","F","I","G">>)>>
WhereDirective == <<Txt(<<"#","W","H","E","R","E">>)>>
SelectDirective == <<Txt(<<"#","S","E","L","E","C","T">>)>>

FullHeader ==
    <<Txt(<<"F","i","l","e","_","N","a","m","e">>), Txt(<<"t","a","r","g","e","t","_","t","a","b","l","e">>), Txt(<<"s","o","u","r","c","e","_","n","a","m","e">>),
      Txt(<<"n","e","w","_","n","a","m","e">>), Txt(<<"d","e","s","c","r","i","p","t","i","o","n">>), Txt(<<"d","a","t","a","_","t","y","p","e">>),
      Txt(<<"l","e","n","g","t","h">>), Txt(<<"k","e","y">>), Txt(<<"i","n","d","e","x">>), Txt(<<"n","u","l","l","a","b","l","e">>)>>
ShortHeader ==
    <<Txt(<<"n","e","w","_","n","a","m","e">>), Txt(<<"d","a","t","a","_","t","y","p","e">>), Txt(<<"k","e","y">>), Txt(<<"n","u","l","l","a","b","l","e">>)>>
HeaderRows == {FullHeader, ShortHeader}

\* Data rows under FullHeader
OrdersIdRow ==
    <<Txt(<<"o","r","d","e","r","s",".","c","s","v">>), Txt(<<"o","r","d","e","r","s">>), Txt(<<"I","d">>), Txt(<<"i","d">>), None,
      Txt(<<"i","n","t","e","g","e","r">>), None, Txt(<<"y","e","s">>), None, Txt(<<"n","o">>)>>
OrdersNameRow ==
    <<Txt(<<"o","r","d","e","r","s",".","c","s","v">>), Txt(<<"o","r","d","e","r","s">>), None, Txt(<<"n","a","m","e">>),
      Txt(<<" ","t","h","e"," ","n","a","m","e"," ">>), Txt(<<"V","a","r","C","h","a","r">>), Num(10), Txt(<<"n","o">>), None,
      Txt(<<"Y">>)>>
NoFileRow ==
    <<None, Txt(<<"o","r","d","e","r","s">>), Txt(<<"I","d">>), Txt(<<"i","d">>), None,
      Txt(<<"i","n","t","e","g","e","r">>), None, Txt(<<"y","e","s">>), None, Txt(<<"n","o">>)>>
ItemsIdRow ==
    <<Txt(<<"i","t","e","m","s","-","{","{","d","s","}","}",".","c","s","v">>),
      Txt(<<"I","t","e","m","s">>), Txt(<<"I","d">>), Txt(<<"I","D">>), None,
      Txt(<<"i","n","t","e","g","e","r">>), None, Txt(<<"y","e","s">>), None, Txt(<<"n","o">>)>>
\* The data row id|integer|yes|no under ShortHeader
ShortIdRow == <<Txt(<<"i","d">>), Txt(<<"i","n","t","e","g","e","r">>), Txt(<<"y","e","s">>), Txt(<<"n","o">>)>>
DataRows == {OrdersIdRow, OrdersNameRow, NoFileRow, ItemsIdRow, ShortIdRow}

ConfigRows ==
    { <<Txt(<<"s","o","u","r","c","e","_","t","a","b","l","e">>), Txt(<<"o","r","d","e","r","s">>)>>,
      <<Txt(<<"s","o","u","r","c","e","_","t","a","b","l","e">>), Txt(<<"f","_","o","r","d","e","r","s">>)>>,
      <<Txt(<<"S","o","u","r","c","e","_","F","o","r","m","a","t"," ">>), Txt(<<"j","s","o","n">>)>>,
      <<Txt(<<"p","a","r","t","i","t","i","o","n","s">>), Txt(<<"I","D",","," ","n","a","m","e">>)>> }
WhereRows == { <<Txt(<<" ","i","d"," ",">"," ","0"," ">>)>> }


(***************************************************************************)
(* parse_rows: one table (lines 273-405)                                   *)
(***************************************************************************)
\* The loop of lines 275-371 from position i (1-based) of the list raw,
\* which is table_def["columns"]: line 310 appends every accepted column to
\* the list the loop is iterating over.  n counts the iterations done.
RECURSIVE RowsLoop(_, _, _, _, _, _, _)
RECURSIVE RowsStep(_, _, _, _, _, _, _, _)
RowsLoop(table_def, raw, columns, i, n, st, flow) ==
    IF i > Len(raw)
    THEN [exc |-> "none", what |-> "", row |-> 0, table_def |-> table_def,
          columns |-> columns, iterations |-> n]
    ELSE RowsStep(table_def, raw, columns, i, n, st, flow,
                  ParseItem(table_def, st, flow, raw[i], i))

\* The loop goes over the records the list held when it began
RowsStepSnapshot(table_def, raw, columns, i, n, st, flow, r) ==
    CASE r.exc = "Empty" ->
           RowsLoop(table_def, raw, columns, i + 1, n + 1, st, flow)
      [] r.exc = "none" ->
           RowsLoop(r.table_def, raw, Append(columns, r.col), i + 1, n + 1,
                    st, flow)
      [] OTHER ->
           [exc |-> r.exc, what |-> r.what, row |-> r.row,
            table_def |-> r.table_def, columns |-> columns,
            iterations |-> n + 1]

\* What the loop does with the outcome r of iteration i
RowsStep(table_def, raw, columns, i, n, st, flow, r) ==
    CASE r.exc = "Empty" ->
           RowsLoop(table_def, raw, columns, i + 1, n + 1, st, flow)
      [] r.exc = "none" ->
           RowsLoop(r.table_def, Append(raw, r.col), Append(columns, r.col),
                    i + 1, n + 1, st, flow)
      [] OTHER ->
           [exc |-> r.exc, what |-> r.what, row |-> r.row,
            table_def |-> r.table_def, columns |-> columns,
            iterations |-> n + 1]

\* lines 374-382: the partition keys of a table, as a list
StripAll(parts) == Evaluated([j \in 1..Len(parts) |-> Strip(parts[j])])

PartitionKeys(table_def) ==
    IF table_def["partitions"] = Txt(<<>>) THEN <<>>
    ELSE IF IsStr(table_def["partitions"])
    THEN StripAll(Split(table_def["partitions"].s, ","))
    ELSE table_def["partitions"].v

\* Every partition key is a text of twenty characters
PartitionVarchar(key) == <<"v","a","r","c","h","a","r","(","2","0",")">>

\* lines 384-389
PartitionDataType(key) ==
    IF key = <<"y","e","a","r">> THEN <<"c","h","a","r","(","4",")">>
    ELSE IF key \in {<<"d","a","y">>, <<"m","o","n","t","h">>, <<"h","o","u","r">>, <<"m","i","n","u","t","e">>} THEN <<"c","h","a","r","(","2",")">>
    ELSE <<"v","a","r","c","h","a","r","(","2","0",")">>

\* lines 390-402
PartitionColumn(table_def, key) ==
    [source_schema |-> table_def["source_schema"].s,
     source_table |-> table_def["source_table"].s,
     source_location |-> table_def["source_location"].s,
     source_column |-> key,
     target_schema |-> table_def["target_schema"].s,
     target_table |-> table_def["target_table"].s,
     target_location |-> table_def["target_location"].s,
     target_column |-> key,
     description |-> Txt(<<>>),
     partition |-> <<"y","e","s">>,
     data_type |-> PartitionDataType(key)]

\* The body of the loop over the tables for one table that is not excluded
\* lines 373-405: the partition columns after the columns r of the loop
PartitionColumns(r, partitions) ==
    IF partitions # <<>>
       /\ \E key \in {"source_table", "source_location", "target_table",
                      "target_location"} : ~Has(r.table_def, key)
    THEN [exc |-> "KeyError", what |-> "partition column", row |-> 0,
          table_def |-> Put(r.table_def, "partitions", Lst(partitions)),
          columns |-> r.columns, iterations |-> r.iterations]
    ELSE [exc |-> "none", what |-> "", row |-> 0,
          table_def |-> Put(r.table_def, "partitions", Lst(partitions)),
          columns |-> r.columns \o
                      Evaluated([j \in 1..Len(partitions) |->
                          PartitionColumn(r.table_def, partitions[j])]),
          iterations |-> r.iterations]

ParseTablePartitions(r) ==
    IF r.exc # "none" THEN r
    ELSE PartitionColumns(r, PartitionKeys(r.table_def))

ParseTable(table_def, raw, st, flow) ==
    ParseTablePartitions(RowsLoop(Put(table_def, "col_number", Num(0)), raw,
                                  <<>>, 1, 0, st, flow))

(***************************************************************************)
(* check (lines 573-587)                                                   *)
(***************************************************************************)
\* A check that stops at the first duplicate of a table
FirstDuplicateColumn(table) ==
    IF \E j \in 1..Len(table.columns) : \E m \in 1..(j - 1) :
          table.columns[m]["target_column"] = table.columns[j]["target_column"]
    THEN << [column |->
                table.columns[
                   CHOOSE j \in 1..Len(table.columns) :
                      /\ \E m \in 1..(j - 1) :
                            table.columns[m]["target_column"]
                            = table.columns[j]["target_column"]
                      /\ \A i \in 1..(j - 1) : \A m \in 1..(i - 1) :
                            table.columns[m]["target_column"]
                            # table.columns[i]["target_column"]
                ]["target_column"],
             table |-> table.table_def["target_table"].s] >>
    ELSE <<>>

\* The messages printed for one table: one for every column whose
\* target_column already occurred among the columns before it
DuplicateColumns(table) ==
    LET cols == table.columns
        dup == {j \in 1..Len(cols) :
                  \E m \in 1..(j - 1) :
                     cols[m]["target_column"] = cols[j]["target_column"]}
        RECURSIVE Messages(_)
        Messages(j) ==
            IF j > Len(cols) THEN <<>>
            ELSE (IF j \in dup
                  THEN << [column |-> cols[j]["target_column"],
                           table |-> table.table_def["target_table"].s] >>
                  ELSE <<>>) \o Messages(j + 1)
    IN Messages(1)

RECURSIVE CheckMessages(_)
CheckMessages(tables) ==
    IF tables = <<>> THEN <<>>
    ELSE DuplicateColumns(Head(tables)) \o CheckMessages(Tail(tables))


(***************************************************************************)
(* generate_column and generate_sources (lines 418-570).  A document is    *)
(* the dictionary handed to yaml.dump, which writes the keys in insertion  *)
(* order and is a function of the dictionary alone.                        *)
(***************************************************************************)
DEFAULT_SOURCE_FORMAT == <<"c","s","v">>
Json == <<"j","s","o","n">>
WideText == <<"v","a","r","c","h","a","r","(","6","5","5","3","5",")">>

\* "{f}='{{{{ var('{f}') }}}}'".format(f=f)
PartitionEquals(f) ==
    f \o <<"=","'","{","{"," ","v","a","r","(","'">> \o f
      \o <<"'",")"," ","}","}","'">>

\* sep.join(parts)
RECURSIVE JoinWith(_, _)
JoinWith(sep, parts) ==
    IF parts = <<>> THEN <<>>
    ELSE IF Len(parts) = 1 THEN parts[1]
    ELSE parts[1] \o sep \o JoinWith(sep, Tail(parts))

\* quoted(" and ".join(... for f in table_def["partitions"]))
Where(table_def) ==
    JoinWith(<<" ","a","n","d"," ">>,
             Evaluated([j \in 1..Len(table_def["partitions"].v) |->
                           PartitionEquals(table_def["partitions"].v[j])]))

\* column.get("meta", {})
ColumnMeta(column) == IF Has(column, "meta") THEN column["meta"] ELSE <<>>

\* column.get(key) is truthy, for the flags key and nullable
Flag(column, key) == Has(column, key) /\ column[key]

\* column.get("partition") == "yes"
IsPartition(column) ==
    Has(column, "partition") /\ column["partition"] = <<"y","e","s">>

\* lines 419-420
ForcedType(column, kind, table_format) ==
    IF kind = "batch" /\ ~Has(ColumnMeta(column), "partition")
       /\ table_format # Json
    THEN IF ~Has(ColumnMeta(column), "partition") THEN Txt(WideText) ELSE None
    ELSE None

\* lines 430-450: the tests of a column
\* The assertion is made of every key column of a datalake table
UniqueOfEveryKey(column, kind, table_def, has_compound_key) ==
    IF kind = "datalake" /\ Flag(column, "key")
    THEN << [test |-> "unique_where", where |-> Where(table_def)] >>
    ELSE <<>>

UniqueTests(column, kind, table_def, has_compound_key) ==
    IF kind = "datalake" /\ Flag(column, "key") /\ ~has_compound_key
    THEN << [test |-> "unique_where", where |-> Where(table_def)] >>
    ELSE <<>>

\* The assertion is made of the partition columns too
NotNullUnlessNullable(column, table_def) ==
    IF ~Flag(column, "nullable")
    THEN << [test |-> "not_null", where |-> Where(table_def)] >>
    ELSE <<>>

NotNullTests(column, table_def) ==
    IF ~Flag(column, "nullable") /\ ~IsPartition(column)
    THEN << [test |-> "not_null", where |-> Where(table_def)] >>
    ELSE <<>>

\* lines 421-455, for the forced type and the tests worked out above
ColumnResult(column, kind, forced_type, tests) ==
    (IF tests # <<>> THEN [tests |-> tests] ELSE <<>>)
    @@ (IF IsPartition(column)
        THEN [meta |-> [partition |-> <<"y","e","s">>]] ELSE <<>>)
    @@ [name |-> IF kind = "batch" THEN column["source_column"]
                 ELSE column["target_column"],
        description |-> column["description"],
        data_type |-> IF Truthy(forced_type) THEN forced_type.s
                      ELSE column["data_type"]]

generate_column(column, kind, table_def, has_compound_key, table_format) ==
    ColumnResult(column, kind, ForcedType(column, kind, table_format),
                 UniqueTests(column, kind, table_def, has_compound_key)
                 \o NotNullTests(column, table_def))

\* The columns of a document (lines 499-507 and 552-560)
DocumentColumns(t, kind, has_compound_key, table_format) ==
    Evaluated([j \in 1..Len(t.columns) |->
        generate_column(t.columns[j], kind, t.table_def, has_compound_key,
                        table_format)])

\* table_def.get("description") or "{flow} - {name}"
Description(table_def, flow_arg, name) ==
    IF Truthy(Get(table_def, "description")) THEN table_def["description"].s
    ELSE flow_arg \o <<" ","-"," ">> \o name

SourceFormat(table_def) ==
    IF Truthy(Get(table_def, "source_format"))
    THEN table_def["source_format"].s ELSE DEFAULT_SOURCE_FORMAT

\* lines 467-479
TableProperties(table_def) ==
    (IF SourceFormat(table_def) = Json
     THEN [classification |-> Json]
     ELSE [areColumnsQuoted |-> <<"f","a","l","s","e">>,
           classification |-> <<"c","s","v">>,
           columnsOrdered |-> <<"t","r","u","e">>,
           delimiter |-> table_def["field_delimiter"].s])
    @@ [typeOfData |-> <<"f","i","l","e">>,
        compressionType |-> IF Has(table_def, "compression_type")
                            THEN table_def["compression_type"].s
                            ELSE <<"n","o","n","e">>]

\* The keys of table_def that lines 465-507 read with table_def[...]
BatchKeys ==
    {"batch_profile", "source_table", "field_delimiter", "flow",
     "source_location"}

\* lines 465-512: the name of the document of a table and the document
BatchName(table_def) ==
    table_def["batch_profile"].s \o <<"_","_">> \o table_def["source_table"].s

BatchDocument(t, flow_arg) ==
    [version |-> 2,
     source |-> t.table_def["batch_profile"].s,
     name |-> BatchName(t.table_def),
     description |-> Description(t.table_def, flow_arg, BatchName(t.table_def)),
     identifier |-> t.table_def["source_table"].s,
     meta |-> [flow |-> t.table_def["flow"].s,
               field_delimiter |-> t.table_def["field_delimiter"].s,
               file_format |-> <<"t","e","x","t","f","i","l","e">>,
               location |-> t.table_def["source_location"].s,
               format |-> SourceFormat(t.table_def),
               table_properties |-> TableProperties(t.table_def)],
     columns |-> DocumentColumns(t, "batch", FALSE, SourceFormat(t.table_def))]

\* lines 515-529
KeyColumns(cols) ==
    IF cols = <<>> THEN <<>>
    ELSE SelectSeq(cols, LAMBDA c : Flag(c, "key"))

KeyColumnNames(cols) ==
    Evaluated([j \in 1..Len(KeyColumns(cols)) |->
                  KeyColumns(cols)[j]["target_column"]])

TableTests(t) ==
    IF Len(KeyColumns(t.columns)) > 1
    THEN << [test |-> "unique_columns_where",
             combination_of_columns |-> KeyColumnNames(t.columns),
             where |-> Where(t.table_def)] >>
    ELSE <<>>

\* text.split(): the words of a text
RECURSIVE Words(_, _)
Words(s, word) ==
    IF s = <<>> THEN (IF word = <<>> THEN <<>> ELSE <<word>>)
    ELSE IF Head(s) \in Whitespace
    THEN (IF word = <<>> THEN <<>> ELSE <<word>>) \o Words(Tail(s), <<>>)
    ELSE Words(Tail(s), Append(word, Head(s)))

Tags(table_def) ==
    IF Truthy(Get(table_def, "tags")) THEN Words(table_def["tags"].s, <<>>)
    ELSE <<>>

DatalakeKeys == {"datalake_profile", "target_table", "flow", "target_location"}

DatalakeName(table_def) ==
    table_def["datalake_profile"].s \o <<"_","_">>
    \o table_def["target_table"].s

\* lines 514-568: tests and tags stay in the document when they are not empty
DatalakeDocument(t, flow_arg) ==
    (IF TableTests(t) # <<>> THEN [tests |-> TableTests(t)] ELSE <<>>)
    @@ (IF Tags(t.table_def) # <<>> THEN [tags |-> Tags(t.table_def)]
        ELSE <<>>)
    @@ [version |-> 2,
        source |-> t.table_def["datalake_profile"].s,
        name |-> DatalakeName(t.table_def),
        description |-> Description(t.table_def, flow_arg,
                                    DatalakeName(t.table_def)),
        identifier |-> t.table_def["target_table"].s,
        meta |-> [flow |-> t.table_def["flow"].s,
                  file_format |-> <<"p","a","r","q","u","e","t">>,
                  location |-> t.table_def["target_location"].s,
                  table_properties |->
                      [classification |-> <<"p","a","r","q","u","e","t">>]],
        columns |-> DocumentColumns(t, "datalake",
                                    Len(KeyColumns(t.columns)) > 1, <<>>)]

\* The file name of the document of table t and what is written to it
DocumentName(t, kind) ==
    (IF kind = "batch" THEN BatchName(t.table_def)
     ELSE DatalakeName(t.table_def)) \o <<".","y","m","l">>

Document(t, kind, flow_arg) ==
    IF kind = "batch" THEN BatchDocument(t, flow_arg)
    ELSE DatalakeDocument(t, flow_arg)

\* The loop of lines 463-570 over the tables ts, in a directory that holds
\* the documents dir: a KeyError ends it and leaves what was written
RECURSIVE WriteDocuments(_, _, _, _)
WriteDocuments(ts, kind, flow_arg, dir) ==
    IF ts = <<>> THEN [exc |-> "none", dir |-> dir]
    ELSE IF \E key \in (IF kind = "batch" THEN BatchKeys ELSE DatalakeKeys) :
               ~Has(Head(ts).table_def, key)
    THEN [exc |-> "KeyError", dir |-> dir]
    ELSE WriteDocuments(Tail(ts), kind, flow_arg,
            (DocumentName(Head(ts), kind) :> Document(Head(ts), kind, flow_arg))
            @@ dir)

\* A generate_sources that writes into the directory as it finds it
generate_sources_merging(ts, kind, flow_arg, dir) ==
    WriteDocuments(ts, kind, flow_arg, dir)

\* generate_sources: lines 459-461 clear the directory of the kind, whatever
\* it holds, before the documents are written
generate_sources(ts, kind, flow_arg, dir) ==
    WriteDocuments(ts, kind, flow_arg, <<>>)

(***************************************************************************)
(* The state of one run of xlsx_to_json_mapping                            *)
(***************************************************************************)
VARIABLES
    pc,          \* where the run is
    sheet_no,    \* the worksheets of the workbook looked at so far
    a1,          \* row 1 of the current worksheet
    handler,     \* table_def["parse_row"]
    header,      \* table_def["header"], or NoHeader
    table_def,   \* the table definition of the current worksheet
    columns,     \* its list of raw column records
    tables,      \* the mapping, in insertion order: name, table_def, columns
    ti,          \* parse_rows: the position of the next table
    exc,         \* the exception that ended the run, or NoExc
    closed,      \* how many times wb.close() was called
    n_records,   \* data rows read from the workbook so far
    n_config,    \* #CONFIG and #WHERE section rows read so far
    last_row,    \* the row read last, where a specification keeps it
    flow_json,   \* the file flows/{flow}.json
    cfg_json,    \* the file flows/{flow}.cfg.json
    reported,    \* the duplicates check has printed
    sources,     \* the documents in models/sources/{kind}/{flow}, by kind
    record,      \* a record given to one iteration of the loop of parse_rows
    outcome,     \* what that iteration, or the loop over a table, made of it
    qm_pc,         \* QueryManager: where the call in progress is
    client,        \* self.client: "none" in a dry run
    execution_ids, \* self.execution_ids
    query_state,   \* Athena: the state of every execution started
    errors,        \* wait_executions: errors
    pending,       \* wait_executions: the executions left in the for loop
    wait_from,     \* wait_executions: who called it
    qm_result,     \* how the last call of the QueryManager ended
    n_started,     \* executions Athena accepted so far
    n_rejected,    \* starts Athena rejected with TooManyRequests so far
    b2d_pc,        \* batch_to_datalake: where the call is
    args,          \* batch_to_datalake: its arguments and the table
    effects,       \* the commands and queries issued, in order
    b2d_exc        \* the exception that left batch_to_datalake, or NotRaised

vars == <<pc, sheet_no, a1, handler, header, table_def, columns, tables, ti,
          exc, closed, n_records, n_config, last_row, flow_json, cfg_json,
          reported, sources, record, outcome, qm_pc, client, execution_ids,
          query_state, errors, pending, wait_from, qm_result, n_started,
          n_rejected, b2d_pc, args, effects, b2d_exc>>

sheet_vars == <<handler, header, table_def, columns>>
file_vars == <<flow_json, cfg_json, sources>>
input_vars == <<n_records, n_config, last_row>>
loop_vars == <<record, outcome>>
qm_vars == <<qm_pc, client, execution_ids, query_state, errors, pending,
             wait_from, qm_result, n_started, n_rejected>>
b2d_vars == <<b2d_pc, args, effects, b2d_exc>>
athena_vars == <<qm_vars, b2d_vars>>

flow == Lower(FlowArg)

NoExc == [type |-> "none", what |-> "", row |-> 0]
Exc(type, what, row) == [type |-> type, what |-> what, row |-> row]
NoFile == [exists |-> FALSE, content |-> <<>>]
\* The two directories models/sources/{kind}/{flow} with no document
NoSources == [batch |-> <<>>, datalake |-> <<>>]
File(content) == [exists |-> TRUE, content |-> content]

\* No table is known by name
NoTableNames(ts) == {}

TableNames(ts) == {ts[j].name : j \in 1..Len(ts)}

\* lines 145-156 and 179-192, without the keys the model holds in variables
\* of their own (parse_row, header, columns)
NewTableDef ==
    [flow |-> Txt(flow),
     batch_profile |-> Txt(BatchProfile),
     datalake_profile |-> Txt(DatalakeProfile),
     batch_location |-> Txt(BatchLocation),
     datalake_location |-> Txt(DatalakeLocation),
     source_schema |-> Txt(SourceSchema),
     target_schema |-> Txt(TargetSchema),
     field_delimiter |-> Txt(DEFAULT_FIELD_DELIMITER),
     partitions |-> DEFAULT_PARTITIONS]

\* QueryManager.__init__ (lines 25-35): the manager of the client cl, its
\* position being where
NewQueryManager(cl, where) ==
    /\ qm_pc = where
    /\ client = cl
    /\ execution_ids = {}
    /\ query_state = <<>>
    /\ errors = <<>>
    /\ pending = {}
    /\ wait_from = "caller"
    /\ qm_result = "none"
    /\ n_started = 0
    /\ n_rejected = 0

\* An exception of batch_to_datalake and its message
Raised(type, message) == [type |-> type, message |-> message]
NotRaised == Raised("none", <<>>)

\* No batch_to_datalake call is in progress
NoBatchToDatalake ==
    /\ b2d_pc = "off"
    /\ args = <<>>
    /\ effects = <<>>
    /\ b2d_exc = NotRaised

\* The run uses neither Athena nor batch_to_datalake
NoAthena == NewQueryManager("none", "off") /\ NoBatchToDatalake

Init ==
    /\ pc = "start"
    /\ sheet_no = 0
    /\ a1 = <<>>
    /\ handler = "None"
    /\ header = NoHeader
    /\ table_def = <<>>
    /\ columns = <<>>
    /\ tables = <<>>
    /\ ti = 0
    /\ exc = NoExc
    /\ closed = 0
    /\ n_records = 0
    /\ n_config = 0
    /\ last_row = <<>>
    /\ flow_json = NoFile
    /\ cfg_json = NoFile
    /\ reported = <<>>
    /\ sources = NoSources
    /\ record = <<>>
    /\ outcome = <<>>
    /\ NoAthena

\* The exception is recorded and the run goes on to the next worksheet
FailAndGoOn(e) ==
    /\ pc' = "next"
    /\ exc' = e

\* An exception leaves xlsx_to_json_mapping
Fail(e) ==
    /\ pc' = "failed"
    /\ exc' = e

\* An exception leaves parse_xlsx and the workbook stays open
FailLeavingOpen(e) ==
    /\ Fail(e)
    /\ UNCHANGED closed

\* An exception leaves parse_xlsx: its finally clause closes the workbook
FailParsing(e) ==
    /\ Fail(e)
    /\ closed' = closed + 1

IsType(row) == Cell(row, 0) = Txt(<<"T","Y","P","E">>)


(***************************************************************************)
(* parse_xlsx (lines 226-261)                                              *)
(***************************************************************************)
\* parse_xlsx_legacy, line 125: every cell of the first row is a label
LegacyHeader(row) ==
    LET used == 0..(Len(row) - 1)
        label == Evaluated([i \in used |-> KeyName(Lower(Cell(row, i).s))])
    IN Evaluated([key \in {label[i] : i \in used} |->
          CHOOSE i \in used :
              /\ label[i] = key
              /\ \A j \in used : label[j] = key => j <= i])

\* load_workbook and the look at A1 of the first worksheet (lines 228-231);
\* on the legacy path, the header row of parse_xlsx_legacy as well
OpenWorkbook ==
    /\ pc = "start"
    /\ \E row1 \in {TypeRow, NotesRow} \cup HeaderRows :
          /\ a1' = row1
          /\ sheet_no' = 1
          /\ IF IsType(row1)
             THEN /\ pc' = "worksheet"
                  /\ UNCHANGED <<header, exc, closed>>
             ELSE IF \E i \in 1..Len(row1) : ~IsStr(row1[i])
             THEN /\ FailParsing(Exc("AttributeError", "lower", 0))
                  /\ UNCHANGED header
             ELSE /\ pc' = "legacy"
                  /\ header' = LegacyHeader(row1)
                  /\ UNCHANGED <<exc, closed>>
    /\ UNCHANGED <<handler, table_def, columns, tables, ti, input_vars,
                   file_vars, reported, loop_vars, athena_vars>>

\* The data rows a worksheet may hold under a header: those as wide as it
RowsUnder(h) == {row \in DataRows : Len(row) = Cardinality(DOMAIN h)}

\* parse_xlsx_legacy, lines 126-136: one more row of the worksheet
LegacyRow ==
    /\ pc = "legacy"
    /\ n_records < MaxRecords
    /\ \E row \in RowsUnder(header) :
          columns' = parse_row_select(table_def, header, columns, row).columns
    /\ n_records' = n_records + 1
    /\ UNCHANGED <<pc, sheet_no, a1, handler, header, table_def, tables, ti,
                   exc, closed, n_config, last_row, file_vars, reported,
                   loop_vars, athena_vars>>

\* parse_xlsx_legacy, lines 138-159: the rows grouped by target table
RECURSIVE LegacyTables(_, _)
LegacyTables(items, acc) ==
    IF items = <<>> THEN [exc |-> NoExc, tables |-> acc]
    ELSE LET item == Head(items) IN
    IF ~Truthy(Get(item, "file_name")) THEN LegacyTables(Tail(items), acc)
    ELSE IF ~Has(item, "target_table")
    THEN [exc |-> Exc("KeyError", "target_table", 0), tables |-> acc]
    ELSE IF ~IsStr(item["target_table"])
    THEN [exc |-> Exc("AttributeError", "lower", 0), tables |-> acc]
    ELSE LET target_table == get_target_table_name(item["target_table"].s,
                                                   flow)
         IN
    IF target_table \in TableNames(acc)
    THEN LegacyTables(Tail(items),
            Evaluated([j \in 1..Len(acc) |->
                IF acc[j].name = target_table
                THEN [acc[j] EXCEPT !.columns = Append(@, item)]
                ELSE acc[j]]))
    ELSE LegacyTables(Tail(items),
            Append(acc, [name |-> target_table, table_def |-> NewTableDef,
                         columns |-> <<item>>]))

\* The rows of the legacy worksheet have ended: parse_xlsx_legacy returns
\* its tables and parse_xlsx closes the workbook
LegacyEnd ==
    /\ pc = "legacy"
    /\ \E r \in {LegacyTables(columns, <<>>)} :
       IF r.exc # NoExc
       THEN FailParsing(r.exc) /\ UNCHANGED <<tables, ti>>
       ELSE /\ tables' = r.tables
            /\ ti' = 1
            /\ pc' = "parse_rows"
            /\ closed' = closed + 1
            /\ UNCHANGED exc
    /\ UNCHANGED <<sheet_no, a1, sheet_vars, input_vars, file_vars, reported, loop_vars, athena_vars>>

(***************************************************************************)
(* parse_worsheet (lines 174-211)                                          *)
(***************************************************************************)
\* lines 174-194: the look at A1 and A2
BeginWorksheet ==
    /\ pc = "worksheet"
    /\ IF ~IsType(a1)
       THEN /\ pc' = "next"
            /\ UNCHANGED <<sheet_vars, exc, closed>>
       ELSE \E row2 \in {IngestionRow, OtherTypeRow} :
               IF row2 # IngestionRow
               THEN /\ FailParsing(Exc("MappingException", "invalid type", 0))
                    /\ UNCHANGED sheet_vars
               ELSE /\ pc' = "rows"
                    /\ handler' = "None"
                    /\ header' = NoHeader
                    /\ table_def' = Put(NewTableDef, "type", row2[1])
                    /\ columns' = <<>>
                    /\ UNCHANGED <<exc, closed>>
    /\ UNCHANGED <<sheet_no, a1, tables, ti, input_vars, file_vars, reported, loop_vars, athena_vars>>

Directives == {ConfigDirective, WhereDirective, SelectDirective}

\* The rows the workbooks considered may hold next, given the section the
\* worksheet is in
Offered ==
    Directives \cup
    CASE handler = "None" -> ConfigRows
      [] handler = "parse_row_config" ->
            IF n_config < MaxConfig THEN ConfigRows ELSE {}
      [] handler = "parse_row_where" ->
            IF n_config < MaxConfig THEN WhereRows ELSE {}
      [] handler = "parse_row_select_header" -> HeaderRows
      [] handler = "parse_row_select" ->
            IF n_records < MaxRecords THEN RowsUnder(header) ELSE {}

Dispatch(row) ==
    CASE handler = "parse_row_config" ->
            parse_row_config(table_def, header, columns, row)
      [] handler = "parse_row_where" ->
            parse_row_where(table_def, header, columns, row)
      [] handler = "parse_row_select_header" ->
            parse_row_select_header(table_def, header, columns, row)
      [] handler = "parse_row_select" ->
            parse_row_select(table_def, header, columns, row)

\* lines 196-204: the row of the worksheet at row 3 or later
ReadRowOf(row) ==
    /\ IF Cell(row, 0) = ConfigDirective[1]
       THEN /\ handler' = "parse_row_config"
            /\ UNCHANGED <<pc, header, table_def, columns, exc, closed>>
       ELSE IF Cell(row, 0) = WhereDirective[1]
       THEN /\ handler' = "parse_row_where"
            /\ UNCHANGED <<pc, header, table_def, columns, exc, closed>>
       ELSE IF Cell(row, 0) = SelectDirective[1]
       THEN /\ handler' = "parse_row_select_header"
            /\ UNCHANGED <<pc, header, table_def, columns, exc, closed>>
       ELSE IF handler = "None"
       THEN \* table_def["parse_row"] is None: calling it fails
            /\ FailParsing(Exc("TypeError", "parse_row", 0))
            /\ UNCHANGED sheet_vars
       ELSE \E r \in {Dispatch(row)} :
            IF r.exc # "none"
            THEN /\ FailParsing(Exc(r.exc, "row", 0))
                 /\ UNCHANGED sheet_vars
            ELSE /\ handler' = r.handler
                 /\ header' = r.header
                 /\ table_def' = r.table_def
                 /\ columns' = r.columns
                 /\ UNCHANGED <<pc, exc, closed>>
    /\ UNCHANGED <<sheet_no, a1, tables, ti, file_vars, reported, loop_vars, athena_vars>>

\* lines 195-204: one row of the worksheet from row 3 on
ReadRow ==
    /\ pc = "rows"
    /\ \E row \in Offered :
          /\ ReadRowOf(row)
          /\ n_records' = IF row \in DataRows THEN n_records + 1
                          ELSE n_records
          /\ n_config' = IF row \in ConfigRows \cup WhereRows
                         THEN n_config + 1 ELSE n_config
    /\ UNCHANGED last_row

\* lines 205-211: the rows have ended
EndWorksheet ==
    /\ pc = "rows"
    /\ IF header = NoHeader
       THEN FailParsing(Exc("KeyError", "header", 0)) /\ UNCHANGED tables
       ELSE IF columns = <<>>
       THEN FailParsing(Exc("IndexError", "columns", 0)) /\ UNCHANGED tables
       ELSE IF ~Has(columns[1], "target_table")
       THEN FailParsing(Exc("KeyError", "target_table", 0))
            /\ UNCHANGED tables
       ELSE IF ~IsStr(columns[1]["target_table"])
       THEN FailParsing(Exc("AttributeError", "lower", 0)) /\ UNCHANGED tables
       ELSE \E target_table \in
                 {get_target_table_name(columns[1]["target_table"].s, flow)} :
               IF target_table \in TableNames(tables)
               THEN /\ FailParsing(Exc("MappingException",
                                       "Duplicated target table", 0))
                    /\ UNCHANGED tables
               ELSE /\ tables' = Append(tables,
                                        [name |-> target_table,
                                         table_def |-> table_def,
                                         columns |-> columns])
                    /\ pc' = "next"
                    /\ UNCHANGED <<exc, closed>>
    /\ UNCHANGED <<sheet_no, a1, sheet_vars, ti, input_vars, file_vars,
                   reported, loop_vars, athena_vars>>

\* line 245: the loop goes on to another worksheet of the workbook
NextWorksheet ==
    /\ pc = "next"
    /\ sheet_no < MaxSheets
    /\ \E row1 \in {TypeRow, NotesRow} : a1' = row1
    /\ sheet_no' = sheet_no + 1
    /\ pc' = "worksheet"
    /\ UNCHANGED <<sheet_vars, tables, ti, exc, closed, input_vars, file_vars,
                   reported, loop_vars, athena_vars>>

\* lines 258-261: no worksheet is left
CloseWorkbook ==
    /\ pc = "next"
    /\ closed' = closed + 1
    /\ ti' = 1
    /\ pc' = "parse_rows"
    /\ UNCHANGED <<sheet_no, a1, sheet_vars, tables, exc, input_vars,
                   file_vars, reported, loop_vars, athena_vars>>


(***************************************************************************)
(* parse_rows (lines 264-415)                                              *)
(***************************************************************************)
\* The characters of the model in code point order, for sorted()
CodeOrder ==
    <<" ", "#", "(", ")", "*", ",", "-", ".", "/", "0", "1", "2", "3", "4",
      "5", "6", "7", "8", "9", ":", "<", ">", "?">> \o UpperChars \o <<"_">>
    \o LowerChars \o <<"{", "|", "}">>

Rank(c) == CHOOSE i \in 1..Len(CodeOrder) : CodeOrder[i] = c

\* a < b for two texts
RECURSIVE TextLess(_, _)
TextLess(a, b) ==
    IF b = <<>> THEN FALSE
    ELSE IF a = <<>> THEN TRUE
    ELSE IF Head(a) # Head(b) THEN Rank(Head(a)) < Rank(Head(b))
    ELSE TextLess(Tail(a), Tail(b))

\* The sort key of line 411 of x is less than that of y
KeyLess(x, y) ==
    \/ TextLess(x["source_schema"], y["source_schema"])
    \/ /\ x["source_schema"] = y["source_schema"]
       /\ TextLess(x["source_table"], y["source_table"])

\* sorted(data, key=...): stable, so an element goes after the elements
\* with a smaller key and after the earlier elements with the same key
SortedPosition(data, j) ==
    Cardinality({m \in 1..Len(data) :
                    \/ KeyLess(data[m], data[j])
                    \/ m < j /\ ~KeyLess(data[j], data[m])}) + 1

Sorted(data) ==
    Evaluated([p \in 1..Len(data) |->
        data[CHOOSE j \in 1..Len(data) : SortedPosition(data, j) = p]])

RECURSIVE AllColumns(_)
AllColumns(ts) ==
    IF ts = <<>> THEN <<>> ELSE Head(ts).columns \o AllColumns(Tail(ts))

RemoveAt(s, j) == SubSeq(s, 1, j - 1) \o SubSeq(s, j + 1, Len(s))

\* lines 267-405: the next table of the mapping
ParseRowsTable ==
    /\ pc = "parse_rows"
    /\ ti <= Len(tables)
    /\ IF to_bool(Get(tables[ti].table_def, "exclude_table"))
       THEN /\ tables' = RemoveAt(tables, ti)
            /\ UNCHANGED <<pc, ti, exc, outcome>>
       ELSE \E r \in {ParseTable(tables[ti].table_def, tables[ti].columns,
                                 tables[ti].name, flow)} :
               /\ outcome' = [iterations |-> r.iterations]
               /\ IF r.exc # "none"
                  THEN /\ Fail(Exc(r.exc, r.what, r.row))
                       /\ UNCHANGED <<tables, ti>>
                  ELSE /\ tables' = [tables EXCEPT ![ti] =
                                        [name |-> tables[ti].name,
                                         table_def |-> r.table_def,
                                         columns |-> r.columns]]
                       /\ ti' = ti + 1
                       /\ UNCHANGED <<pc, exc>>
    /\ UNCHANGED <<sheet_no, a1, sheet_vars, closed, input_vars, file_vars,
                   reported, record, athena_vars>>

\* lines 407-415: the two documents are written and parse_rows returns
ParseRowsWrite ==
    /\ pc = "parse_rows"
    /\ ti > Len(tables)
    /\ flow_json' = File(Sorted(AllColumns(tables)))
    /\ cfg_json' = File(tables)
    /\ pc' = "check"
    /\ UNCHANGED <<sheet_no, a1, sheet_vars, tables, ti, exc, closed,
                   input_vars, reported, sources, loop_vars, athena_vars>>

(***************************************************************************)
(* check, as xlsx_to_json_mapping calls it (line 615)                      *)
(***************************************************************************)
Check ==
    /\ pc = "check"
    /\ reported' = CheckMessages(tables)
    /\ IF CheckMessages(tables) # <<>>
       THEN Fail(Exc("MappingException", "Duplicated columns", 0))
       ELSE pc' = "checked" /\ UNCHANGED exc
    /\ UNCHANGED <<sheet_no, a1, sheet_vars, tables, ti, closed, input_vars,
                   file_vars, loop_vars, athena_vars>>

(***************************************************************************)
(* generate_sources, as xlsx_to_json_mapping calls it (lines 616-617) with *)
(* the flow as it was given                                                *)
(***************************************************************************)
GenerateSources(kind, then) ==
    /\ \E r \in {generate_sources(tables, kind, FlowArg, sources[kind])} :
          /\ sources' = [sources EXCEPT ![kind] = r.dir]
          /\ IF r.exc # "none"
             THEN Fail(Exc(r.exc, "generate_sources", 0))
             ELSE pc' = then /\ UNCHANGED exc
    /\ UNCHANGED <<sheet_no, a1, sheet_vars, tables, ti, closed, input_vars,
                   flow_json, cfg_json, reported, loop_vars, athena_vars>>

GenerateBatch ==
    /\ pc = "checked"
    /\ GenerateSources("batch", "batch")

GenerateDatalake ==
    /\ pc = "batch"
    /\ GenerateSources("datalake", "generated")

Next ==
    \/ OpenWorkbook
    \/ LegacyRow
    \/ LegacyEnd
    \/ BeginWorksheet
    \/ ReadRow
    \/ EndWorksheet
    \/ NextWorksheet
    \/ CloseWorkbook
    \/ ParseRowsTable
    \/ ParseRowsWrite
    \/ Check
    \/ GenerateBatch
    \/ GenerateDatalake

Spec == Init /\ [][Next]_vars


(***************************************************************************)
(* One iteration of the loop of parse_rows (lines 275-371) on its own, for *)
(* records and tables over a wider range than the workbooks above hold     *)
(***************************************************************************)
\* Row numbers the iteration runs at
MaxRowNumber == 2

DataTypes ==
    { Txt(<<"c","h","a","r">>), Txt(<<"v","a","r","c","h","a","r">>), Txt(<<"V","a","r","C","h","a","r">>), Txt(<<"d","e","c","i","m","a","l">>),
      Txt(<<"D","E","C","I","M","A","L">>), Txt(<<"f","l","o","a","t">>), Txt(<<"d","o","u","b","l","e">>), Txt(<<"d","a","t","e">>),
      Txt(<<"t","i","m","e","s","t","a","m","p">>), Txt(<<"b","o","o","l","e","a","n">>), Txt(<<"t","i","n","y","i","n","t">>),
      Txt(<<"s","m","a","l","l","i","n","t">>), Txt(<<"i","n","t","e","g","e","r">>), Txt(<<"b","i","g","i","n","t">>),
      Txt(<<"d","o","u","b","l","e"," ","p","r","e","c","i","s","i","o","n">>), Txt(<<"a","r","r","a","y","<","c","h","a","r",">">>),
      Txt(<<"a","r","r","a","y","<","v","a","r","c","h","a","r",">">>), Txt(<<"s","t","r","i","n","g">>), Txt(<<"i","n","t">>), Txt(<<"d","e","c">>),
      Txt(<<"n","u","m","e","r","i","c">>), Txt(<<>>), None }
Lengths == { None, Txt(<<>>), Num(10), Txt(<<"1","0",".","2">>), Txt(<<"y","y","y","y">>) }
NewNames ==
    { Txt(<<"o","r","d","e","r","_","i","d">>), Txt(<<"O","r","d","e","r","_","I","D">>), Txt(<<"o","r","d","e","r",".","i","d">>),
      Txt(<<"o","r","d","e","r"," ","i","d">>), Txt(<<"o","r","d","e","r","-","i","d">>), Txt(<<>>), None }
FileNames == { Txt(<<"o","r","d","e","r","s",".","c","s","v">>), Txt(<<>>), None }
SourceNames == { Txt(<<"I","d">>), Txt(<<>>), None }

\* The records: items as parse_row_select builds them under FullHeader
Records ==
    { [file_name |-> f, target_table |-> Txt(<<"o","r","d","e","r","s">>), source_name |-> s,
       new_name |-> n, description |-> None, data_type |-> t, length |-> l,
       key |-> Txt(<<"y","e","s">>), index |-> None, nullable |-> Txt(<<"n","o">>)] :
      f \in FileNames, s \in SourceNames, n \in NewNames, t \in DataTypes,
      l \in Lengths }

\* The table the record belongs to, before its first column (line 274): a
\* positional one and one whose #CONFIG section sets source_format to json
LoopTables ==
    { Put(Put(NewTableDef, "type", IngestionRow[1]), "col_number", Num(0)),
      Put(Put(Put(NewTableDef, "type", IngestionRow[1]), "col_number", Num(0)),
          "source_format", Txt(<<"j","s","o","n">>)) }

LoopTargetTable == <<"f","_","o","r","d","e","r","s">>

InitRecord ==
    /\ pc = "record"
    /\ table_def \in LoopTables
    /\ ti \in 1..MaxRowNumber
    /\ sheet_no = 0
    /\ a1 = <<>>
    /\ handler = "None"
    /\ header = NoHeader
    /\ columns = <<>>
    /\ tables = <<>>
    /\ exc = NoExc
    /\ closed = 0
    /\ n_records = 0
    /\ n_config = 0
    /\ last_row = <<>>
    /\ flow_json = NoFile
    /\ cfg_json = NoFile
    /\ reported = <<>>
    /\ sources = NoSources
    /\ record = <<>>
    /\ outcome = <<>>
    /\ NoAthena

\* The body of the loop for the record at row number ti
NormalizeRecord ==
    /\ pc = "record"
    /\ \E r \in Records :
          /\ record' = r
          /\ outcome' = ParseItem(table_def, LoopTargetTable, flow, r, ti)
    /\ pc' = "done"
    /\ UNCHANGED <<sheet_no, a1, sheet_vars, tables, ti, exc, closed,
                   input_vars, file_vars, reported, athena_vars>>

NextRecord == NormalizeRecord

SpecRecord == InitRecord /\ [][NextRecord]_vars

(***************************************************************************)
(* Properties of one iteration (SpecRecord)                                *)
(***************************************************************************)
\* The record is not a blank line in either sense: it names its file and
\* its source column
Named(r) == Truthy(r.file_name) /\ Truthy(r.source_name)

C6_Recognized ==
    { <<"c","h","a","r">>, <<"v","a","r","c","h","a","r">>, <<"d","e","c","i","m","a","l">>, <<"f","l","o","a","t">>, <<"d","o","u","b","l","e">>, <<"d","a","t","e">>,
      <<"t","i","m","e","s","t","a","m","p">>, <<"b","o","o","l","e","a","n">>, <<"t","i","n","y","i","n","t">>, <<"s","m","a","l","l","i","n","t">>, <<"i","n","t","e","g","e","r">>,
      <<"b","i","g","i","n","t">>, <<"d","o","u","b","l","e"," ","p","r","e","c","i","s","i","o","n">>, <<"a","r","r","a","y","<","c","h","a","r",">">>,
      <<"a","r","r","a","y","<","v","a","r","c","h","a","r",">">> }

C6_LengthOr(L, default) == IF Truthy(L) THEN StrOf(L) ELSE default

\* The text with every "." made ","
C6_Commas(text) ==
    Evaluated([i \in 1..Len(text) |-> IF text[i] = "." THEN "," ELSE text[i]])

C6_DataType(type, L) ==
    CASE type \in {<<"c","h","a","r">>, <<"v","a","r","c","h","a","r">>} ->
            type \o <<"(">> \o C6_LengthOr(L, <<"2","5","5">>) \o <<")">>
      [] type = <<"d","e","c","i","m","a","l">> ->
            <<"d","e","c","i","m","a","l","(">> \o C6_Commas(C6_LengthOr(L, <<"1","8",",","2">>)) \o <<")">>
      [] type = <<"f","l","o","a","t">> -> <<"r","e","a","l">>
      [] type = <<"d","o","u","b","l","e">> -> <<"d","o","u","b","l","e"," ","p","r","e","c","i","s","i","o","n">>
      [] type = <<"a","r","r","a","y","<","c","h","a","r",">">> ->
            <<"a","r","r","a","y","<","c","h","a","r","(">> \o C6_LengthOr(L, <<"2","5","5">>) \o <<")",">">>
      [] type = <<"a","r","r","a","y","<","v","a","r","c","h","a","r",">">> ->
            <<"a","r","r","a","y","<","v","a","r","c","h","a","r","(">> \o C6_LengthOr(L, <<"2","5","5">>) \o <<")",">">>
      [] OTHER -> type

\* C6: a record whose declared type is, lower-cased, one of the recognized
\* types is never rejected for its type, and the column it yields has the
\* data type the table of rules gives for (type, length) alone: char and
\* varchar get "(length or 255)", decimal "(length or 18,2)" with "." made
\* ",", float is real, double is double precision, the arrays get the length
\* inside the brackets, the others stay; date and timestamp, and only
\* they, carry the length as the format field.
C6_TypeRules ==
    (pc = "done" /\ IsStr(record.data_type)
     /\ Lower(record.data_type.s) \in C6_Recognized) =>
        /\ outcome.what \notin {"invalid data_type", "missing data_type"}
        /\ outcome.exc = "none" =>
              /\ outcome.col["data_type"] =
                    C6_DataType(Lower(record.data_type.s), record.length)
              /\ IF Lower(record.data_type.s) \in {<<"d","a","t","e">>, <<"t","i","m","e","s","t","a","m","p">>}
                 THEN /\ Has(outcome.col, "format")
                      /\ outcome.col["format"] = record.length
                 ELSE ~Has(outcome.col, "format")

\* A decimal written in capitals with the length 10.2 became decimal(10,2)
C6_Witness ==
    /\ pc = "done"
    /\ record.data_type = Txt(<<"D","E","C","I","M","A","L">>)
    /\ record.length = Txt(<<"1","0",".","2">>)
    /\ outcome.exc = "none"
    /\ outcome.col["data_type"] = <<"d","e","c","i","m","a","l","(","1","0",",","2",")">>

\* C7: a named record whose declared type is empty, absent or none of the
\* recognized types fails with a MappingException citing its row and
\* yields no column.
C7_UnknownTypeRejected ==
    (pc = "done" /\ Named(record)
     /\ (IsStr(record.data_type) =>
            Lower(record.data_type.s) \notin C6_Recognized)) =>
        /\ outcome.exc = "MappingException"
        /\ outcome.row = ti
        /\ outcome.col = <<>>

C8_Invalid(new_name) ==
    \/ ~Truthy(new_name)
    \/ \E i \in 1..Len(new_name.s) :
          Lower(new_name.s)[i] \in {".", " ", "-"}

C9_BlankIsNoFileName ==
    pc = "done" =>
        /\ outcome.exc = "Empty" <=> ~Truthy(record.file_name)
        /\ outcome.exc = "Empty" =>
              outcome.col = <<>> /\ outcome.table_def = table_def

\* A record with a source_name and no file_name was skipped
C9_Witness ==
    /\ pc = "done"
    /\ ~Truthy(record.file_name)
    /\ Truthy(record.source_name)
    /\ outcome.exc = "Empty"

\* C9 as stated: the records skipped as blank lines are exactly those whose
\* source_name is empty or absent.
C9_BlankIsNoSourceName ==
    pc = "done" => (outcome.exc = "Empty" <=> ~Truthy(record.source_name))

(***************************************************************************)
(* Properties of a run (Spec)                                              *)
(***************************************************************************)
\* The workbook's only worksheet so far is an ingestion worksheet with one
\* #CONFIG row setting source_table, the header row h and the data row row
C1_Worksheet(h, row, source_table) ==
    /\ sheet_no = 1
    /\ IsType(a1)
    /\ header = HeaderOf(h)
    /\ columns = parse_row_select(<<>>, HeaderOf(h), <<>>, row).columns
    /\ table_def = Put(Put(NewTableDef, "type", IngestionRow[1]),
                       "source_table", Txt(source_table))

\* The column id, an integer key that is not nullable, and after it the
\* partition columns year, month and day
C1_Columns(cols) ==
    /\ Len(cols) = 4
    /\ cols[1]["target_column"] = <<"i","d">>
    /\ cols[1]["data_type"] = <<"i","n","t","e","g","e","r">>
    /\ cols[1]["key"] = TRUE
    /\ cols[1]["nullable"] = FALSE
    /\ \A k \in 1..3 :
          /\ cols[1 + k]["target_column"] =
                << <<"y","e","a","r">>, <<"m","o","n","t","h">>, <<"d","a","y">> >>[k]
          /\ Has(cols[1 + k], "partition")

\* C1 as amended: the worksheet whose header row names file_name,
\* target_table, source_name, new_name, description, data_type, length, key,
\* index and nullable, whose #CONFIG row sets source_table to the name
\* derived from the file name (f_orders) and whose one data row is the
\* column id of orders.csv never fails, and once parse_rows has returned
\* its one table has the column id, integer, key, not nullable, followed by
\* the three default partition columns.
C1_FullWorksheetCompiles ==
    C1_Worksheet(FullHeader, OrdersIdRow, <<"f","_","o","r","d","e","r","s">>) =>
        /\ pc # "failed"
        /\ pc \in {"check", "checked"} =>
              /\ Len(tables) = 1
              /\ tables[1].name = <<"f","_","o","r","d","e","r","s">>
              /\ C1_Columns(tables[1].columns)

\* The run of that worksheet has passed the check
C1_Witness ==
    /\ pc = "checked"
    /\ C1_Worksheet(FullHeader, OrdersIdRow, <<"f","_","o","r","d","e","r","s">>)
    /\ C1_Columns(tables[1].columns)

\* C1 as stated: the worksheet with the header row
\* new_name|data_type|key|nullable, source_table=orders and the data row
\* id|integer|yes|no never fails.
C1_ShortWorksheetCompiles ==
    C1_Worksheet(ShortHeader, ShortIdRow, <<"o","r","d","e","r","s">>) => pc # "failed"

\* C2: a run that has failed has not written flows/{flow}.cfg.json.
C2_FailedRunWritesNothing == pc = "failed" => ~cfg_json.exists

\* C3: in a mapping that has passed the check, the target columns of each
\* table are pairwise distinct when compared without regard to case.
C3_DistinctIgnoringCase ==
    pc = "checked" =>
        \A t \in 1..Len(tables) :
           \A j, k \in 1..Len(tables[t].columns) :
              j # k => Lower(tables[t].columns[j]["target_column"])
                       # Lower(tables[t].columns[k]["target_column"])

\* The target table the worksheet being read resolves to
C4_Name == get_target_table_name(columns[1]["target_table"].s, flow)

C4_Step ==
    \* a worksheet is taken only under a name no earlier one has, after
    \* the earlier ones and leaving them as they are
    /\ (pc = "rows" /\ pc' = "next") =>
          /\ \A j \in 1..Len(tables) : tables[j].name # C4_Name
          /\ tables' = Append(tables, [name |-> C4_Name,
                                       table_def |-> table_def,
                                       columns |-> columns])
    \* the failure for a name already there is a MappingException raised
    \* before parse_rows has begun or written, and replaces nothing
    /\ (exc' # exc /\ exc'.what = "Duplicated target table") =>
          /\ exc'.type = "MappingException"
          /\ pc = "rows" /\ pc' = "failed"
          /\ \E j \in 1..Len(tables) : tables[j].name = C4_Name
          /\ tables' = tables
          /\ ti' = 0
          /\ ~flow_json'.exists /\ ~cfg_json'.exists
    \* one table per target table
    /\ \A j, k \in 1..Len(tables') :
          j # k => tables'[j].name # tables'[k].name

\* C4: a worksheet that resolves to the target table of an earlier one
\* makes the run fail with a MappingException while the worksheets are
\* assembled, before parse_rows runs or anything is written, and the
\* earlier definition stays; the tables of a run have distinct target
\* tables and stand in worksheet order.
C4_DuplicateTargetTable == [][C4_Step]_vars

\* The second worksheet resolved to the table of the first
C4_Witness ==
    /\ pc = "failed"
    /\ exc = Exc("MappingException", "Duplicated target table", 0)
    /\ sheet_no = 2
    /\ Len(tables) = 1

\* The columns of table t that repeat the target column of an earlier one
C5_Repeats(t) ==
    {j \in 1..Len(t.columns) :
        \E m \in 1..(j - 1) :
           t.columns[m]["target_column"] = t.columns[j]["target_column"]}

\* C5 as amended: when the check fails for duplicated columns it has
\* reported every one of them, whatever table it is in: one message for
\* every column that repeats an earlier column of its table.
C5_AllColumnsReported ==
    (pc = "failed" /\ exc.what = "Duplicated columns") =>
        /\ \A k \in 1..Len(tables) :
              \A j \in C5_Repeats(tables[k]) :
                 \E m \in 1..Len(reported) :
                    reported[m] =
                       [column |-> tables[k].columns[j]["target_column"],
                        table |-> tables[k].table_def["target_table"].s]
        /\ Len(reported) =
              Cardinality(UNION {{<<k, j>> : j \in C5_Repeats(tables[k])} :
                                 k \in 1..Len(tables)})

\* Two duplicates were reported before the run failed
C5_Witness ==
    /\ pc = "failed"
    /\ exc.what = "Duplicated columns"
    /\ Len(reported) >= 2

\* C5 as stated, for the duplicated target table: when the run fails for
\* it, every duplicated column of the worksheets assembled so far has
\* been reported.
C5_AllDuplicatesReported ==
    (pc = "failed" /\ exc.what = "Duplicated target table") =>
        \A k \in 1..Len(tables) :
           \A j, m \in 1..Len(tables[k].columns) :
              (/\ j < m
               /\ Truthy(Get(tables[k].columns[j], "file_name"))
               /\ Truthy(Get(tables[k].columns[m], "file_name"))
               /\ Truthy(Get(tables[k].columns[j], "new_name"))
               /\ Lower(StrOf(tables[k].columns[j]["new_name"]))
                  = Lower(StrOf(Get(tables[k].columns[m], "new_name")))) =>
                 \E i \in 1..Len(reported) :
                    reported[i].column
                       = Lower(StrOf(tables[k].columns[j]["new_name"]))

\* The data columns of a table: those parse_rows did not add for a
\* partition key
C10_DataColumns(cols) == SelectSeq(cols, LAMBDA c : ~Has(c, "partition"))

\* The records of a table that are not skipped
C10_Rows(raw) == SelectSeq(raw, LAMBDA r : Truthy(Get(r, "file_name")))

C10_Step ==
    (pc = "parse_rows" /\ pc' = "parse_rows" /\ ti' = ti + 1) =>
        /\ Len(C10_DataColumns(tables'[ti].columns))
           = Len(C10_Rows(tables[ti].columns))
        /\ \A k \in 1..Len(C10_Rows(tables[ti].columns)) :
              C10_DataColumns(tables'[ti].columns)[k]["source_column"] =
                 IF Get(tables[ti].table_def, "source_format") = Txt(<<"j","s","o","n">>)
                 THEN Lower(C10_Rows(tables[ti].columns)[k]["source_name"].s)
                 ELSE <<"c","o","l">> \o Str(k)

\* C10: when parse_rows has normalized a table, its data columns are as
\* many as its records that were not skipped, and the k-th of them has the
\* source column col{k}, k counted from 1 in every table, unless the
\* table's source_format is json: then it is the lower-cased source_name of
\* the k-th such record.
C10_SourceColumns == [][C10_Step]_vars

\* Two tables were normalized: the first has col1 and col2, the second col1
C10_Witness ==
    /\ pc \in {"parse_rows", "check", "checked"}
    /\ Len(tables) = 2
    /\ ti > 2
    /\ Len(C10_DataColumns(tables[1].columns)) = 2
    /\ C10_DataColumns(tables[1].columns)[2]["source_column"] = <<"c","o","l","2">>
    /\ Len(C10_DataColumns(tables[2].columns)) = 1
    /\ C10_DataColumns(tables[2].columns)[1]["source_column"] = <<"c","o","l","1">>

(***************************************************************************)
(* parse_rows, check and generate_sources on their own, for mappings as    *)
(* parse_xlsx returns them (lines 602-617): worksheets with #CONFIG        *)
(* sections and rows over a wider range than the workbooks above hold      *)
(***************************************************************************)
\* Worksheets of a workbook
MaxTables == 2

\* #CONFIG sections: the rows under the directive
ConfigSections ==
    { <<>>,
      << <<Txt(<<"s","o","u","r","c","e","_","t","a","b","l","e">>), Txt(<<"o","r","d","e","r","s">>)>> >>,
      << <<Txt(<<"s","o","u","r","c","e","_","t","a","b","l","e">>), Txt(<<"f","_","o","r","d","e","r","s">>)>> >>,
      << <<Txt(<<"s","o","u","r","c","e","_","f","o","r","m","a","t">>), Txt(<<"j","s","o","n">>)>> >>,
      << <<Txt(<<"p","a","r","t","i","t","i","o","n","s">>), None>> >>,
      << <<Txt(<<"P","a","r","t","i","t","i","o","n","s">>), Txt(<<"y","e","a","r",","," ","m","o","n","t","h"," ",",","d","a","y">>)>> >>,
      << <<Txt(<<"p","a","r","t","i","t","i","o","n","s">>), Txt(<<"I","D",",","h","o","u","r">>)>> >>,
      << <<Txt(<<"p","a","r","t","i","t","i","o","n","s","_","s","t","y","l","e">>), Txt(<<"n","o","n","-","h","i","v","e">>)>> >>,
      << <<Txt(<<"s","o","u","r","c","e","_","l","o","c","a","t","i","o","n">>), Txt(<<"s","3",":","/","/","x","/","i","n">>)>> >>,
      << <<Txt(<<"t","a","r","g","e","t","_","l","o","c","a","t","i","o","n">>), Txt(<<"s","3",":","/","/","x","/","o","u","t","/">>)>> >>,
      << <<Txt(<<"s","o","u","r","c","e","_","t","a","b","l","e">>), Txt(<<"o","r","d","e","r","s">>)>>,
         <<Txt(<<"p","a","r","t","i","t","i","o","n","s">>), None>> >>,
      << <<Txt(<<"e","x","c","l","u","d","e","_","t","a","b","l","e">>), Txt(<<"Y","e","s">>)>> >>,
      << <<Txt(<<"t","a","g","s">>), Txt(<<"d","a","i","l","y"," "," ","r","a","w">>)>>,
         <<Txt(<<"d","e","s","c","r","i","p","t","i","o","n">>), Txt(<<"O","r","d","e","r","s">>)>> >> }

\* Data rows under FullHeader, besides those above
OrdersCodeRow ==
    <<Txt(<<"o","r","d","e","r","s",".","c","s","v">>), Txt(<<"o","r","d","e","r","s">>), Txt(<<"C","o","d","e">>), Txt(<<"c","o","d","e">>),
      None, Txt(<<"c","h","a","r">>), None, Txt(<<"1">>), None, None>>
StockIdRow ==
    <<Txt(<<"o","r","d","e","r","s",".","c","s","v">>), Txt(<<"F","_","S","t","o","c","k">>), Txt(<<"I","d">>), Txt(<<"i","d">>),
      Txt(<<"s","t","o","c","k"," ","i","d">>), Txt(<<"b","i","g","i","n","t">>), None, Txt(<<"y","e","s">>), None, None>>
\* A row of the table orders that another file feeds
OrdersOldRow ==
    <<Txt(<<"o","l","d",".","c","s","v">>), Txt(<<"o","r","d","e","r","s">>), Txt(<<"C","o","d","e">>), Txt(<<"c","o","d","e">>),
      None, Txt(<<"c","h","a","r">>), None, Txt(<<"1">>), None, None>>
OldIdRow ==
    <<Txt(<<"o","l","d",".","c","s","v">>), Txt(<<"o","l","d">>), Txt(<<"I","d">>), Txt(<<"i","d">>),
      None, Txt(<<"i","n","t","e","g","e","r">>), None, Txt(<<"y","e","s">>), None, None>>

\* #SELECT sections: the rows under the header row, for the table orders and
\* for a second table
OrdersSections ==
    { <<OrdersIdRow>>, <<OrdersIdRow, OrdersNameRow>>,
      <<OrdersIdRow, OrdersNameRow, OrdersCodeRow>>, <<NoFileRow>>,
      <<OrdersNameRow>>,
      <<OrdersIdRow, OrdersIdRow>>,
      <<OrdersIdRow, NoFileRow, OrdersNameRow>>,
      <<OrdersIdRow, NoFileRow, OrdersOldRow>> }
OtherSections == { <<ItemsIdRow>>, <<StockIdRow>> }

\* lines 195-204 for the rows of a #CONFIG section
RECURSIVE ConfigOf(_, _)
ConfigOf(def, rows) ==
    IF rows = <<>> THEN def
    ELSE ConfigOf(parse_row_config(def, NoHeader, <<>>,
                                   Head(rows)).table_def,
                  Tail(rows))

\* lines 195-204 for the rows under the header row FullHeader
RECURSIVE SelectOf(_, _)
SelectOf(items, rows) ==
    IF rows = <<>> THEN items
    ELSE SelectOf(parse_row_select(<<>>, HeaderOf(FullHeader), items,
                                   Head(rows)).columns,
                  Tail(rows))

\* What parse_worsheet adds to tables for a worksheet with these sections
\* (lines 179-211)
Worksheet(config, rows) ==
    [name |-> get_target_table_name(rows[1][2].s, flow),
     table_def |-> ConfigOf(Put(NewTableDef, "type", IngestionRow[1]), config),
     columns |-> SelectOf(<<>>, rows)]

Worksheets ==
    {Worksheet(config, rows) : config \in ConfigSections,
                               rows \in OrdersSections}
    \cup {Worksheet(<<>>, rows) : rows \in OtherSections}

\* The mappings parse_xlsx returns: worksheets with distinct target tables
Mappings ==
    {ts \in UNION {[1..n -> Worksheets] : n \in 1..MaxTables} :
        \A j, k \in 1..Len(ts) : j # k => ts[j].name # ts[k].name}

\* The table of a worksheet w as parse_rows leaves it (r is what ParseTable
\* made of it)
Compiled(w, r) == [name |-> w.name, table_def |-> r.table_def,
                   columns |-> r.columns]

\* The documents an earlier run over another mapping left
OldMapping ==
    << Compiled(Worksheet(<<>>, <<OldIdRow>>),
                ParseTable(Worksheet(<<>>, <<OldIdRow>>).table_def,
                           Worksheet(<<>>, <<OldIdRow>>).columns,
                           Worksheet(<<>>, <<OldIdRow>>).name, flow)) >>
OldSources ==
    [batch |-> generate_sources(OldMapping, "batch", FlowArg, <<>>).dir,
     datalake |-> generate_sources(OldMapping, "datalake", FlowArg, <<>>).dir]

InitTables ==
    /\ pc = "parse_rows"
    /\ tables \in Mappings
    /\ sources \in {NoSources, OldSources}
    /\ ti = 1
    /\ sheet_no = 0
    /\ a1 = <<>>
    /\ handler = "None"
    /\ header = NoHeader
    /\ table_def = <<>>
    /\ columns = <<>>
    /\ exc = NoExc
    /\ closed = 1
    /\ n_records = 0
    /\ n_config = 0
    /\ last_row = <<>>
    /\ flow_json = NoFile
    /\ cfg_json = NoFile
    /\ reported = <<>>
    /\ record = <<>>
    /\ outcome = <<>>
    /\ NoAthena

\* generate_sources is called once more for one of the kinds, on the mapping
\* and flow of the calls before
GenerateAgain ==
    /\ pc = "generated"
    /\ \E kind \in {"batch", "datalake"} : GenerateSources(kind, "again")

NextTables ==
    \/ ParseRowsTable
    \/ ParseRowsWrite
    \/ Check
    \/ GenerateBatch
    \/ GenerateDatalake
    \/ GenerateAgain

SpecTables == InitTables /\ [][NextTables]_vars

(***************************************************************************)
(* Properties of parse_rows and generate_sources (SpecTables)              *)
(***************************************************************************)
\* The rows of a table that are not blank lines
C11_Rows(t) == SelectSeq(t.columns, LAMBDA r : Truthy(Get(r, "file_name")))

\* The source table the claim derives from a file name: extension and
\* {{...}} placeholder gone, dashes as underscores, lower case, flow prefix
C11_Derived(file_name) ==
    CASE file_name = <<"o","r","d","e","r","s",".","c","s","v">> -> <<"f","_","o","r","d","e","r","s">>
      [] file_name = <<"i","t","e","m","s","-","{","{","d","s","}","}",".","c","s","v">> -> <<"f","_","i","t","e","m","s">>
      [] file_name = <<"o","l","d",".","c","s","v">> -> <<"f","_","o","l","d">>

\* parse_rows takes up a table that is not excluded and has a row that is
\* not blank
C11_Compiling ==
    /\ pc = "parse_rows"
    /\ ti <= Len(tables)
    /\ ~to_bool(Get(tables[ti].table_def, "exclude_table"))
    /\ C11_Rows(tables[ti]) # <<>>

C11_Step ==
    C11_Compiling =>
        IF Has(tables[ti].table_def, "source_table")
        THEN IF tables[ti].table_def["source_table"].s
                = C11_Derived(C11_Rows(tables[ti])[1]["file_name"].s)
             THEN pc' # "failed" =>
                     tables'[ti].table_def["source_table"]
                     = tables[ti].table_def["source_table"]
             ELSE /\ pc' = "failed"
                  /\ exc'.type = "MappingException"
                  /\ exc'.what = "source table mismatch"
        ELSE pc' # "failed" =>
                tables'[ti].table_def["source_table"].s
                = C11_Derived(C11_Rows(tables[ti])[1]["file_name"].s)

\* C11 as amended: when parse_rows compiles a table with a row that is not
\* blank, a source_table supplied by a #CONFIG row is kept as the table's
\* source_table only if it equals the name derived from the file name of
\* the row; a supplied source_table that differs fails the run with a
\* MappingException (source table mismatch).  A table without a supplied
\* source_table gets the name derived from the file name.
C11_SuppliedMustMatch == [][C11_Step]_vars

\* A run has failed on a table whose #CONFIG section supplied source_table
C11_Witness ==
    /\ pc = "failed"
    /\ ti <= Len(tables)
    /\ Has(tables[ti].table_def, "source_table")
    /\ tables[ti].table_def["source_table"] = Txt(<<"o","r","d","e","r","s">>)
    /\ exc.what = "source table mismatch"

\* C11 as stated: a table whose #CONFIG section supplied source_table never
\* fails because the file name derives another name.
C11_SuppliedCompiles ==
    (pc = "failed" /\ ti >= 1 /\ ti <= Len(tables)
     /\ Has(tables[ti].table_def, "source_table"))
    => exc.what # "source table mismatch"

\* parse_rows has returned the mapping
C12_CompiledMapping == pc \in {"check", "checked", "batch", "generated", "again"}

\* The table has a column that came from a row of the worksheet
C12_HasDataColumn(t) ==
    \E j \in 1..Len(t.columns) : ~Has(t.columns[j], "partition")

\* The name with the prefix of the flow f, put before it unless it is there
C12_Prefixed(name) ==
    IF Len(name) >= 2 /\ SubSeq(name, 1, 2) = <<"f","_">> THEN name
    ELSE <<"f","_">> \o name

C13_EndsWithSeparator(text) == text # <<>> /\ text[Len(text)] = "/"

\* C13: in a compiled mapping the source_location and the target_location
\* of every table end with "/".
C13_LocationsEndWithSeparator ==
    C12_CompiledMapping =>
        \A j \in 1..Len(tables) :
           \A key \in {"source_location", "target_location"} :
              Has(tables[j].table_def, key) =>
                 C13_EndsWithSeparator(tables[j].table_def[key].s)

\* The partition keys the claim gives for the partitions of a table
\* definition: a list as it is, a text split at its commas and trimmed
C14_Keys(partitions) ==
    CASE partitions = DEFAULT_PARTITIONS -> DEFAULT_PARTITIONS.v
      [] partitions = Txt(<<>>) -> <<>>
      [] partitions = Txt(<<"y","e","a","r",","," ","m","o","n","t","h"," ",",","d","a","y">>) ->
            << <<"y","e","a","r">>, <<"m","o","n","t","h">>, <<"d","a","y">> >>
      [] partitions = Txt(<<"I","D",",","h","o","u","r">>) -> << <<"I","D">>, <<"h","o","u","r">> >>

C14_Type(key) ==
    CASE key = <<"y","e","a","r">> -> <<"c","h","a","r","(","4",")">>
      [] key \in {<<"d","a","y">>, <<"m","o","n","t","h">>, <<"h","o","u","r">>, <<"m","i","n","u","t","e">>} -> <<"c","h","a","r","(","2",")">>
      [] OTHER -> <<"v","a","r","c","h","a","r","(","2","0",")">>

\* cols are data columns followed by one partition column for each of keys
C14_Columns(cols, keys) ==
    /\ Len(cols) >= Len(keys)
    /\ \A j \in 1..(Len(cols) - Len(keys)) : ~Has(cols[j], "partition")
    /\ \A k \in 1..Len(keys) :
          /\ cols[Len(cols) - Len(keys) + k]["target_column"] = keys[k]
          /\ cols[Len(cols) - Len(keys) + k]["partition"] = <<"y","e","s">>
          /\ cols[Len(cols) - Len(keys) + k]["data_type"] = C14_Type(keys[k])

C14_Step ==
    (/\ pc = "parse_rows"
     /\ ti <= Len(tables)
     /\ ~to_bool(Get(tables[ti].table_def, "exclude_table"))
     /\ pc' # "failed")
    => /\ tables'[ti].table_def["partitions"]
          = Lst(C14_Keys(tables[ti].table_def["partitions"]))
       /\ C14_Columns(tables'[ti].columns,
                      C14_Keys(tables[ti].table_def["partitions"]))

\* C14: a table that parse_rows has assembled has the list of its partition
\* keys as partitions (the list it had, the trimmed parts of a text split
\* at its commas, no key for the empty text, the default list when no
\* #CONFIG row set it), and its columns end with exactly one column for
\* each key, in the order of the keys and after all data columns, each
\* marked as partition and typed char(4) for year, char(2) for day, month,
\* hour and minute, and varchar(20) for any other key.
C14_PartitionColumns == [][C14_Step]_vars

\* A table with the partitions "ID,hour" has been assembled
C14_Witness ==
    /\ pc = "check"
    /\ tables[1].table_def["partitions"] = Lst(<< <<"I","D">>, <<"h","o","u","r">> >>)
    /\ Len(tables[1].columns) = 3
    /\ tables[1].columns[2]["data_type"] = <<"v","a","r","c","h","a","r","(","2","0",")">>
    /\ tables[1].columns[3]["data_type"] = <<"c","h","a","r","(","2",")">>

\* The partition columns of a table, in the order of its columns
C15_PartitionColumns(t) ==
    SelectSeq(t.columns, LAMBDA c : Has(c, "partition"))

\* C15: in a compiled mapping, the i-th partition column (counted from 0)
\* of a table whose partitions_style is the non-hive layout has the source
\* column partition_{i}.
C15_NonHiveSourceColumns ==
    C12_CompiledMapping =>
        \A j \in 1..Len(tables) :
           Get(tables[j].table_def, "partitions_style") = Txt(<<"n","o","n","-","h","i","v","e">>) =>
              \A i \in 1..Len(C15_PartitionColumns(tables[j])) :
                 C15_PartitionColumns(tables[j])[i]["source_column"]
                 = <<"p","a","r","t","i","t","i","o","n","_">> \o Str(i - 1)

\* The documents of the one table of the mapping have been written
C16_Generated(kinds) ==
    /\ Len(tables) = 1
    /\ \/ pc \in {"generated", "again"}
       \/ pc = "batch" /\ kinds = {"batch"}

\* The data types of the columns of document doc follow the claim for the
\* columns cols of its table: the wide text type in place of the type of a
\* column that is to be forced, the normalized type of any other column
C16_Types(doc, cols, forced) ==
    /\ Len(doc["columns"]) = Len(cols)
    /\ \A k \in 1..Len(cols) :
          doc["columns"][k]["data_type"] =
             IF forced /\ ~Has(cols[k], "partition")
             THEN <<"v","a","r","c","h","a","r","(","6","5","5","3","5",")">>
             ELSE cols[k]["data_type"]

\* C16: in the batch document of a table the columns that are not partition
\* columns have the type varchar(65535) unless the source format of the
\* table is json, and the partition columns, all columns of a json table
\* and all columns of the datalake document keep their normalized type.
C16_ForcedTypes ==
    /\ C16_Generated({"batch"}) =>
          \A name \in DOMAIN sources["batch"] :
             C16_Types(sources["batch"][name], tables[1].columns,
                       Get(tables[1].table_def, "source_format")
                       # Txt(<<"j","s","o","n">>))
    /\ C16_Generated({"batch", "datalake"}) =>
          \A name \in DOMAIN sources["datalake"] :
             C16_Types(sources["datalake"][name], tables[1].columns, FALSE)

\* The predicate the claim gives for the partition keys of a table
C17_Predicate(keys) ==
    CASE keys = <<>> -> <<>>
      [] keys = << <<"y","e","a","r">>, <<"m","o","n","t","h">>, <<"d","a","y">> >> ->
            <<"y","e","a","r","=","'","{","{"," ","v","a","r","(","'","y","e","a","r","'",")"," ","}","}","'"," ","a","n","d"," ","m","o","n","t","h","=","'","{","{"," ","v","a","r","(","'","m","o","n","t","h","'",")"," ","}","}","'">>
            \o <<" ","a","n","d"," ","d","a","y","=","'","{","{"," ","v","a","r","(","'","d","a","y","'",")"," ","}","}","'">>
      [] keys = << <<"I","D">>, <<"h","o","u","r">> >> ->
            <<"I","D","=","'","{","{"," ","v","a","r","(","'","I","D","'",")"," ","}","}","'"," ","a","n","d"," ","h","o","u","r","=","'","{","{"," ","v","a","r","(","'","h","o","u","r","'",")"," ","}","}","'">>

\* The not-null assertions of a column of a document
C17_NotNull(column) ==
    IF Has(column, "tests")
    THEN SelectSeq(column["tests"], LAMBDA test : test.test = "not_null")
    ELSE <<>>

\* The columns of document doc carry the not-null assertions the claim
\* gives for the columns cols of its table with the partition keys keys
C17_Assertions(doc, cols, keys) ==
    /\ Len(doc["columns"]) = Len(cols)
    /\ \A k \in 1..Len(cols) :
          IF ~Has(cols[k], "partition") /\ ~cols[k]["nullable"]
          THEN /\ Len(C17_NotNull(doc["columns"][k])) = 1
               /\ C17_NotNull(doc["columns"][k])[1].where
                  = C17_Predicate(keys)
          ELSE C17_NotNull(doc["columns"][k]) = <<>>

\* C17: in the documents of both kinds a column has a not-null assertion
\* if and only if it is neither a partition column nor nullable, and the
\* predicate of the assertion is the conjunction with "and" of
\* {key}='{{ var('{key}') }}' over the partition keys of the table, in
\* their order.
C17_NotNullAssertions ==
    \A kind \in {"batch", "datalake"} :
       C16_Generated({"batch", kind}) =>
          \A name \in DOMAIN sources[kind] :
             C17_Assertions(sources[kind][name], tables[1].columns,
                            tables[1].table_def["partitions"].v)

\* The documents of a table with a nullable column, a column that is not
\* nullable and partition columns have been written
C17_Witness ==
    /\ pc = "generated"
    /\ Len(tables) = 1
    /\ \E j, k, m \in 1..Len(tables[1].columns) :
          /\ Has(tables[1].columns[m], "partition")
          /\ ~Has(tables[1].columns[j], "partition")
          /\ tables[1].columns[j]["nullable"]
          /\ ~Has(tables[1].columns[k], "partition")
          /\ ~tables[1].columns[k]["nullable"]
    /\ \A kind \in {"batch", "datalake"} : DOMAIN sources[kind] # {}

\* The target columns of the key columns among cols, in the order of cols
RECURSIVE C18_Keys(_)
C18_Keys(cols) ==
    IF cols = <<>> THEN <<>>
    ELSE (IF Has(Head(cols), "key") /\ Head(cols)["key"]
          THEN << Head(cols)["target_column"] >> ELSE <<>>)
         \o C18_Keys(Tail(cols))

\* The uniqueness assertions of a column of a document
C18_Unique(column) ==
    IF Has(column, "tests")
    THEN SelectSeq(column["tests"], LAMBDA test : test.test = "unique_where")
    ELSE <<>>

\* Document doc of the table with the columns cols has a uniqueness
\* assertion on each of the columns named in unique and on no other column
C18_ColumnAssertions(doc, cols, unique) ==
    \A k \in 1..Len(cols) :
       Len(C18_Unique(doc["columns"][k]))
       = IF cols[k]["target_column"] \in unique THEN 1 ELSE 0

\* The datalake document follows the claim for the key columns keys
C18_Datalake(doc, cols, keys) ==
    IF Len(keys) > 1
    THEN /\ Has(doc, "tests")
         /\ Len(doc["tests"]) = 1
         /\ doc["tests"][1].test = "unique_columns_where"
         /\ doc["tests"][1].combination_of_columns = keys
         /\ C18_ColumnAssertions(doc, cols, {})
    ELSE /\ ~Has(doc, "tests")
         /\ C18_ColumnAssertions(doc, cols, {keys[k] : k \in 1..Len(keys)})

\* C18: the datalake document of a table with one key column has one
\* uniqueness assertion, on that column, and none for the table; with two
\* or more key columns it has one assertion for the table that lists the
\* key columns in column order, and none on a column; with no key column
\* it has neither.  A batch document has no uniqueness assertion.
C18_UniquenessAssertions ==
    /\ C16_Generated({"batch", "datalake"}) =>
          \A name \in DOMAIN sources["datalake"] :
             C18_Datalake(sources["datalake"][name], tables[1].columns,
                          C18_Keys(tables[1].columns))
    /\ C16_Generated({"batch"}) =>
          \A name \in DOMAIN sources["batch"] :
             /\ ~Has(sources["batch"][name], "tests")
             /\ C18_ColumnAssertions(sources["batch"][name],
                                     tables[1].columns, {})

\* The datalake document of a table with two key columns has been written
C18_Witness ==
    /\ pc = "generated"
    /\ Len(tables) = 1
    /\ C18_Keys(tables[1].columns) = << <<"i","d">>, <<"c","o","d","e">> >>
    /\ DOMAIN sources["datalake"] # {}

\* No document of the earlier run is in the directory dir of the kind
C19_Cleared(dir, kind) == DOMAIN dir \cap DOMAIN OldSources[kind] = {}

C19_Step ==
    /\ (pc = "generated" /\ pc' = "again") => sources' = sources
    /\ (pc = "checked" /\ pc' = "batch") =>
          C19_Cleared(sources'["batch"], "batch")
    /\ (pc = "batch" /\ pc' = "generated") =>
          C19_Cleared(sources'["datalake"], "datalake")

\* C19: a call of generate_sources that follows the calls for the two
\* kinds, for either kind on the same mapping and flow, leaves the
\* documents of both kinds as they were; and after a call for a kind no
\* document that an earlier run over another mapping left in the directory
\* of that kind is there any more.
C19_GenerateIdempotent == [][C19_Step]_vars

\* The batch documents have been written over those of an earlier run, the
\* datalake documents of which are still there
C19_Witness ==
    /\ pc = "batch"
    /\ sources["datalake"] = OldSources["datalake"]
    /\ DOMAIN sources["datalake"] # {}
    /\ DOMAIN sources["batch"] # {}
    /\ C19_Cleared(sources["batch"], "batch")

\* The tables ts in the opposite order
C20_Reversed(ts) == [j \in 1..Len(ts) |-> ts[Len(ts) + 1 - j]]

\* C20: after the documents of both kinds have been generated, the
\* directory of each kind holds as many documents as the mapping has
\* tables, and the documents are those that generate_sources writes for
\* the tables taken in the opposite order.
C20_OneDocumentPerTable ==
    pc \in {"generated", "again"} =>
        \A kind \in {"batch", "datalake"} :
           /\ Cardinality(DOMAIN sources[kind]) = Len(tables)
           /\ sources[kind]
              = generate_sources(C20_Reversed(tables), kind, FlowArg,
                                 <<>>).dir

(***************************************************************************)
(* Properties of parse_xlsx and parse_worsheet (Spec)                      *)
(***************************************************************************)
\* The positions of a run inside the try block of parse_xlsx
C21_Parsing == {"worksheet", "rows", "next", "legacy"}

\* A step that looks at a worksheet whose A1 is not TYPE goes on with the
\* loop over the worksheets, raising nothing and adding no table
C21_Skips ==
    /\ (pc = "start" /\ pc' # "start" /\ ~IsType(a1'))
          => (pc' = "worksheet" /\ exc' = NoExc /\ tables' = tables)
    /\ (pc = "worksheet" /\ ~IsType(a1))
          => (pc' = "next" /\ exc' = NoExc /\ tables' = tables)

\* C21: a worksheet whose A1 is not TYPE, at any position of the workbook,
\* is skipped: no error is raised, no table is added for it and the other
\* worksheets are still parsed as ingestion worksheets
C21_NonIngestionSkipped == [][C21_Skips]_vars

C22_Ingestion == Txt(<<"#","I","N","G","E","S","T","I","O","N">>)

C22_NothingWritten ==
    flow_json = NoFile /\ cfg_json = NoFile /\ sources = NoSources

\* What a step that raises a structural error leaves
C22_Aborted ==
    /\ pc' = "failed"
    /\ tables' = tables
    /\ sheet_no' = sheet_no
    /\ C22_NothingWritten'

C22_Step ==
    \* A2 is looked at: the worksheet is an ingestion worksheet or the run ends
    /\ (pc = "worksheet" /\ IsType(a1))
          => \/ pc' = "rows" /\ table_def'["type"] = C22_Ingestion
                             /\ exc' = NoExc
             \/ C22_Aborted /\ exc'.type = "MappingException"
                            /\ exc'.what = "invalid type"
    \* a row of a section is read while no handler is active
    /\ (pc = "rows" /\ handler = "None" /\ n_config' # n_config)
          => C22_Aborted /\ exc'.type = "TypeError"
    \* nothing follows the end of the run
    /\ pc # "failed"

\* C22: a worksheet with A1 = TYPE whose A2 is not #INGESTION, or where a
\* row that is no directive is reached with no handler active, ends the run
\* at once: no table is added for it, no later worksheet is parsed and no
\* document is written
C22_StructuralErrorAborts == [][C22_Step]_vars

C22_Witness ==
    /\ pc = "failed"
    /\ exc.type = "TypeError"
    /\ sheet_no = 2
    /\ Len(tables) = 1
    /\ C22_NothingWritten

C23_Step ==
    /\ C21_Parsing \cap {pc} # {} => closed = 0
    /\ pc' \notin C21_Parsing => closed' = 1
    /\ closed' = IF pc \in C21_Parsing \cup {"start"}
                    /\ pc' \notin C21_Parsing
                 THEN closed + 1 ELSE closed

\* C23: on every way out of parsing an opened workbook (return, skipped
\* worksheets, the legacy path, a MappingException or another exception)
\* the workbook is closed exactly once, after the last worksheet was read
\* and before parse_xlsx returns
C23_ClosedExactlyOnce == [][C23_Step]_vars

C23_Witness ==
    /\ pc = "failed"
    /\ closed = 1
    /\ exc.type = "MappingException"
    /\ exc.what = "Duplicated target table"
    /\ sheet_no = 2

(***************************************************************************)
(* parse_worsheet on one ingestion worksheet (lines 174-211), for rows     *)
(* over a wider range than the workbooks above hold; the row read last is  *)
(* kept in last_row                                                        *)
(***************************************************************************)
\* Rows of a #CONFIG section: key and value
SheetConfigRows ==
    { <<Txt(<<" ","S","o","u","r","c","e","_","F","o","r","m","a","t"," ">>), Txt(<<" ","j","s","o","n"," ">>)>>,
      <<Txt(<<"p","a","r","t","i","t","i","o","n","s">>), Txt(<<"I","D",","," ","n","a","m","e">>)>>,
      <<Txt(<<"l","e","n","g","t","h">>), Num(5)>>,
      <<Txt(<<"l","e","n","g","t","h">>), Num(0)>>,
      <<Txt(<<"t","a","g","s">>), None>>,
      <<Num(1), Txt(<<"x">>)>>,
      <<Txt(<<"t","a","g","s">>)>> }

\* Rows of a #WHERE section
SheetWhereRows == { <<Txt(<<" ","i","d"," ",">"," ","0"," ">>)>>, <<None>>, <<Num(3)>> }

\* Rows of a #SELECT section under a header
SheetDataRows == {OrdersIdRow, NoFileRow, ShortIdRow}

\* #CONFIG and #WHERE section rows of the worksheet
MaxSectionRows == 2

\* The rows the worksheet may hold next
SheetOffered ==
    Directives \cup
    CASE handler = "None" -> SheetWhereRows
      [] handler = "parse_row_config" ->
            IF n_config < MaxSectionRows THEN SheetConfigRows ELSE {}
      [] handler = "parse_row_where" ->
            IF n_config < MaxSectionRows THEN SheetWhereRows ELSE {}
      [] handler = "parse_row_select_header" -> HeaderRows
      [] handler = "parse_row_select" ->
            IF n_records < MaxRecords
            THEN RowsUnder(header) \cap SheetDataRows ELSE {}

InitWorksheet ==
    /\ pc = "worksheet"
    /\ sheet_no = 1
    /\ a1 = TypeRow
    /\ handler = "None"
    /\ header = NoHeader
    /\ table_def = <<>>
    /\ columns = <<>>
    /\ tables = <<>>
    /\ ti = 0
    /\ exc = NoExc
    /\ closed = 0
    /\ n_records = 0
    /\ n_config = 0
    /\ last_row = <<>>
    /\ flow_json = NoFile
    /\ cfg_json = NoFile
    /\ reported = <<>>
    /\ sources = NoSources
    /\ record = <<>>
    /\ outcome = <<>>
    /\ NoAthena

\* lines 195-204: one row of the worksheet from row 3 on
ReadSheetRow ==
    /\ pc = "rows"
    /\ \E row \in SheetOffered :
          /\ ReadRowOf(row)
          /\ last_row' = row
          /\ n_records' = IF row \in SheetDataRows THEN n_records + 1
                          ELSE n_records
          /\ n_config' = IF row \in SheetConfigRows \cup SheetWhereRows
                         THEN n_config + 1 ELSE n_config

NextSheet ==
    \/ BeginWorksheet
    \/ ReadSheetRow
    \/ EndWorksheet

SpecWorksheet == InitWorksheet /\ [][NextSheet]_vars

(***************************************************************************)
(* Properties of the rows of a worksheet (SpecWorksheet)                   *)
(***************************************************************************)
\* The step reads a row of the worksheet
C24_Reads == pc = "rows" /\ (pc' = "rows" \/ exc'.what \in {"row", "parse_row"})

C24_IsDirective(row) ==
    Cell(row, 0) \in {ConfigDirective[1], WhereDirective[1], SelectDirective[1]}

C24_HandlerAfter(row) ==
    CASE Cell(row, 0) = ConfigDirective[1] -> "parse_row_config"
      [] Cell(row, 0) = WhereDirective[1] -> "parse_row_where"
      [] Cell(row, 0) = SelectDirective[1] -> "parse_row_select_header"
      [] OTHER -> IF handler = "parse_row_select_header"
                  THEN "parse_row_select" ELSE handler

C24_Step ==
    \* rows 1 and 2 reach no handler
    /\ pc = "worksheet" /\ pc' = "rows" =>
          /\ handler' = "None"
          /\ columns' = <<>>
          /\ table_def' = Put(NewTableDef, "type", C22_Ingestion)
    /\ C24_Reads /\ pc' = "rows" =>
          /\ handler' = C24_HandlerAfter(last_row')
          /\ C24_IsDirective(last_row') =>
                table_def' = table_def /\ columns' = columns
                /\ header' = header
          /\ columns' # columns =>
                /\ handler = "parse_row_select"
                /\ Len(columns') = Len(columns) + 1
          /\ header' # header => handler = "parse_row_select_header"

\* C24: from row 3 on the active handler is that of the most recent
\* directive row (config after #CONFIG, where after #WHERE, after #SELECT
\* the header handler for the next row and the row handler for the later
\* ones); a directive row sets no table key and appends no column record,
\* and rows 1-2 are dispatched to no handler
C24_HandlerFollowsDirective == [][C24_Step]_vars

C24_Witness ==
    /\ pc = "rows"
    /\ handler = "parse_row_select"
    /\ Len(columns) = 2
    /\ last_row \in DataRows
    /\ Has(table_def, "source_format")
    /\ Has(table_def, "where_condition")

C25_Value(v) == IF IsStr(v) THEN Txt(Strip(v.s)) ELSE v

C25_Step ==
    (/\ C24_Reads
     /\ handler = "parse_row_config"
     /\ ~C24_IsDirective(last_row')
     /\ Len(last_row') >= 2
     /\ IsStr(Cell(last_row', 0))) =>
        /\ pc' = "rows"
        /\ table_def' = Put(table_def,
                            KeyName(Lower(Strip(Cell(last_row', 0).s))),
                            C25_Value(Cell(last_row', 1)))
        /\ columns' = columns
        /\ header' = header

\* C25: a row handled by the config handler with a textual key k and a
\* value v leaves the table definition mapping the trimmed, lower-cased k
\* to v trimmed when v is textual and to v itself when it is not, and
\* changes no other key and no column record
C25_ConfigValueKept == [][C25_Step]_vars

(***************************************************************************)
(* Properties of the loop of parse_rows over one table (SpecTables)        *)
(***************************************************************************)
\* parse_rows takes up a table that is not excluded
C26_Compiling ==
    /\ pc = "parse_rows"
    /\ ti <= Len(tables)
    /\ ~to_bool(Get(tables[ti].table_def, "exclude_table"))

C26_NonBlank(raw) == SelectSeq(raw, LAMBDA x : Truthy(Get(x, "file_name")))

\* The columns cols begin with one data column for each record of rows, in
\* their order, and hold partition columns after them
C26_OnePerRecord(cols, rows) ==
    /\ Len(cols) >= Len(rows)
    /\ \A j \in 1..Len(rows) :
          /\ ~Has(cols[j], "partition")
          /\ cols[j]["filename"] = rows[j]["file_name"].s
          /\ cols[j]["target_column"] = Lower(rows[j]["new_name"].s)
          /\ cols[j]["description"] = OrElse(rows[j]["description"], Txt(<<>>))
    /\ \A j \in (Len(rows) + 1)..Len(cols) : Has(cols[j], "partition")

C26_Step ==
    C26_Compiling =>
        /\ outcome'.iterations <= 2 * Len(tables[ti].columns)
        /\ pc' # "failed" =>
              /\ outcome'.iterations =
                    Len(tables[ti].columns)
                    + Len(C26_NonBlank(tables[ti].columns))
              /\ C26_OnePerRecord(tables'[ti].columns,
                                  C26_NonBlank(tables[ti].columns))

\* C26: the loop of parse_rows over a table ends although it appends each
\* normalized record to the list it goes over: an appended record has no
\* file_name and is skipped, so n raw records take at most 2n iterations,
\* and the table ends with one data column for each raw record with a
\* file_name, in the order of the rows
C26_LoopTerminates == [][C26_Step]_vars

C26_Witness ==
    /\ pc = "parse_rows"
    /\ ti = 2
    /\ outcome = [iterations |-> 5]
    /\ tables[1].columns[1]["target_column"] = <<"i","d">>
    /\ tables[1].columns[2]["target_column"] = <<"n","a","m","e">>
    /\ tables[1].columns[2]["source_column"] = <<"c","o","l","2">>

\* The source table of the table t: the one its definition has, otherwise
\* the one the file name of its first record that is not blank derives
C27_SourceTable(t) ==
    IF Has(t.table_def, "source_table") THEN t.table_def["source_table"]
    ELSE Txt(C11_Derived(C26_NonBlank(t.columns)[1]["file_name"].s))

\* The positions of the records of t whose file name derives another name
C27_Differing(t) ==
    {j \in 1..Len(t.columns) :
        /\ Truthy(Get(t.columns[j], "file_name"))
        /\ Txt(C11_Derived(t.columns[j]["file_name"].s)) # C27_SourceTable(t)}

C27_First(t) ==
    CHOOSE j \in C27_Differing(t) : \A k \in C27_Differing(t) : j <= k

C27_DataColumns(cols) == SelectSeq(cols, LAMBDA c : ~Has(c, "partition"))

C27_Step ==
    C26_Compiling =>
        /\ C27_Differing(tables[ti]) # {} =>
              /\ pc' = "failed"
              /\ outcome'.iterations <= C27_First(tables[ti])
              /\ outcome'.iterations = C27_First(tables[ti]) =>
                    exc' = Exc("MappingException", "source table mismatch",
                               C27_First(tables[ti]))
        /\ (pc' = "failed" /\ exc'.what = "source table mismatch") =>
              C27_Differing(tables[ti]) # {}
        /\ pc' # "failed" =>
              \A j \in 1..Len(C27_DataColumns(tables'[ti].columns)) :
                 LET c == C27_DataColumns(tables'[ti].columns)[j] IN
                 /\ Txt(c["source_table"]) = C27_SourceTable(tables[ti])
                 /\ Txt(c["source_table"]) = tables'[ti].table_def["source_table"]
                 /\ Txt(c["source_location"])
                       = tables'[ti].table_def["source_location"]

\* C27: every record of a worksheet that is not blank has to derive, from
\* its file name, the source_table of the table (the one the table
\* definition has, otherwise that of the first such record); the first
\* record that differs ends the run with a MappingException citing its
\* row number, so the data columns of a compiled table share one
\* source_table and one source_location
C27_OneSourcePerTable == [][C27_Step]_vars

C27_Witness ==
    /\ pc = "failed"
    /\ exc = Exc("MappingException", "source table mismatch", 3)
    /\ ~Has(tables[ti].table_def, "source_table")
    /\ outcome = [iterations |-> 3]

(***************************************************************************)
(* QueryManager (dbting/qm.py).  Athena accepts or rejects a start and     *)
(* moves the executions it accepted from QUEUED to RUNNING and on to a     *)
(* final state on its own.                                                 *)
(***************************************************************************)
\* Executions Athena accepts, and starts it rejects, in one behaviour
MaxQueries == 2
MaxRejections == 2

run_vars == <<pc, sheet_no, a1, sheet_vars, tables, ti, exc, closed,
              input_vars, file_vars, reported, loop_vars>>

\* No compilation is in progress
NoCompilation ==
    /\ pc = "off"
    /\ sheet_no = 0
    /\ a1 = <<>>
    /\ handler = "None"
    /\ header = NoHeader
    /\ table_def = <<>>
    /\ columns = <<>>
    /\ tables = <<>>
    /\ ti = 0
    /\ exc = NoExc
    /\ closed = 0
    /\ n_records = 0
    /\ n_config = 0
    /\ last_row = <<>>
    /\ flow_json = NoFile
    /\ cfg_json = NoFile
    /\ reported = <<>>
    /\ sources = NoSources
    /\ record = <<>>
    /\ outcome = <<>>

Active == {"QUEUED", "RUNNING"}
Final == {"SUCCEEDED", "FAILED", "CANCELLED"}

\* r["QueryExecution"]["Status"]["StateChangeReason"] of a failed execution
StateChangeReason(id) == <<"f","a","i","l","e","d"," ">> \o Str(id)

\* start_query_execution (lines 37-51): how a call may end
StartOutcomes(cl) ==
    IF cl = "none" THEN {"DryRunException"}
    ELSE {"started", "TooManyRequestsException", "ClientError"}

\* line 55 (and 61): self.execution_ids.add(...) of the execution Athena
\* accepted
AddExecution ==
    /\ n_started < MaxQueries
    /\ n_started' = n_started + 1
    /\ execution_ids' = execution_ids \cup {n_started + 1}
    /\ query_state' = query_state @@ ((n_started + 1) :> "QUEUED")

\* What execute_query does with a rejection: "wait" and start again, or
\* "raise" (lines 58-61)
WaitsForever(attempt) == "wait"
OnTooManyRequests(attempt) == IF attempt = 1 THEN "wait" ELSE "raise"

\* A start ends with TooManyRequests at the given attempt
Rejected(attempt) ==
    /\ n_rejected < MaxRejections
    /\ n_rejected' = n_rejected + 1
    /\ IF OnTooManyRequests(attempt) = "wait"
       THEN \* wait_executions(), lines 72-74, the client not being None
            /\ errors' = <<>>
            /\ wait_from' = "execute_query"
            /\ qm_pc' = "while"
            /\ UNCHANGED qm_result
       ELSE /\ qm_result' = "TooManyRequestsException"
            /\ qm_pc' = "idle"
            /\ UNCHANGED <<errors, wait_from>>
    /\ UNCHANGED <<execution_ids, query_state, n_started>>

\* A start at the given attempt, lines 54-63
StartQuery(attempt) ==
    /\ \E o \in StartOutcomes(client) :
          CASE o = "started" ->
                 /\ AddExecution
                 /\ qm_result' = "started"
                 /\ qm_pc' = "idle"
                 /\ UNCHANGED <<errors, wait_from, n_rejected>>
            [] o = "TooManyRequestsException" -> Rejected(attempt)
            [] o = "DryRunException" ->
                 /\ qm_result' = "dry"
                 /\ qm_pc' = "idle"
                 /\ UNCHANGED <<execution_ids, query_state, errors, wait_from,
                                n_started, n_rejected>>
            [] o = "ClientError" ->
                 /\ qm_result' = "ClientError"
                 /\ qm_pc' = "idle"
                 /\ UNCHANGED <<execution_ids, query_state, errors, wait_from,
                                n_started, n_rejected>>
    /\ UNCHANGED <<client, pending>>

\* execute_query is called (lines 53-57, 62-63)
execute_query ==
    /\ qm_pc = "idle"
    /\ StartQuery(1)

\* wait_executions is called (lines 71-74)
wait_executions ==
    /\ qm_pc = "idle"
    /\ errors' = <<>>
    /\ IF client = "none"
       THEN qm_result' = "returned" /\ UNCHANGED <<qm_pc, wait_from>>
       ELSE qm_pc' = "while" /\ wait_from' = "caller" /\ UNCHANGED qm_result
    /\ UNCHANGED <<client, execution_ids, query_state, pending, n_started,
                   n_rejected>>

\* line 75: while self.execution_ids
ReturnsAtOnce(ids) == TRUE
WaitDone(ids) == ids = {}

\* lines 75-76 and 88: the while loop begins a pass or wait_executions
\* returns
WaitWhile ==
    /\ qm_pc = "while"
    /\ IF WaitDone(execution_ids)
       THEN /\ qm_pc' = IF wait_from = "execute_query" THEN "retry"
                        ELSE "idle"
            /\ qm_result' = "returned"
            /\ UNCHANGED pending
       ELSE /\ pending' = execution_ids
            /\ qm_pc' = "for"
            /\ UNCHANGED qm_result
    /\ UNCHANGED <<client, execution_ids, query_state, errors, wait_from,
                   n_started, n_rejected, b2d_vars, run_vars>>

\* lines 77-87: the state of one execution of the pass is looked at
WaitPoll ==
    /\ qm_pc = "for"
    /\ IF pending = {}
       THEN /\ qm_pc' = "while"
            /\ UNCHANGED <<pending, errors, execution_ids>>
       ELSE \E id \in pending :
               /\ pending' = pending \ {id}
               /\ IF query_state[id] \in Active
                  THEN UNCHANGED <<errors, execution_ids>>
                  ELSE /\ errors' = IF query_state[id] = "FAILED"
                                    THEN Append(errors, StateChangeReason(id))
                                    ELSE errors
                       /\ execution_ids' = execution_ids \ {id}
               /\ UNCHANGED qm_pc
    /\ UNCHANGED <<client, query_state, wait_from, qm_result, n_started,
                   n_rejected, b2d_vars, run_vars>>

\* lines 59-61: after wait_executions the query is started again
ExecuteRetry ==
    /\ qm_pc = "retry"
    /\ StartQuery(2)
    /\ UNCHANGED <<b2d_vars, run_vars>>

\* Athena moves an execution on
AthenaProgress ==
    /\ \E id \in DOMAIN query_state :
          /\ query_state[id] \in Active
          /\ \E next \in IF query_state[id] = "QUEUED"
                         THEN {"RUNNING", "FAILED", "CANCELLED"}
                         ELSE Final :
                query_state' = [query_state EXCEPT ![id] = next]
    /\ UNCHANGED <<qm_pc, client, execution_ids, errors, pending, wait_from,
                   qm_result, n_started, n_rejected, b2d_vars, run_vars>>

\* A QueryManager and a caller that calls execute_query and wait_executions
\* in any order
InitQuery ==
    /\ NoCompilation
    /\ NoBatchToDatalake
    /\ \E cl \in {"none", "athena"} : NewQueryManager(cl, "idle")

CallExecuteQuery ==
    /\ b2d_pc = "off"
    /\ execute_query
    /\ UNCHANGED <<b2d_vars, run_vars>>

CallWaitExecutions ==
    /\ b2d_pc = "off"
    /\ wait_executions
    /\ UNCHANGED <<b2d_vars, run_vars>>

NextQuery ==
    \/ CallExecuteQuery
    \/ CallWaitExecutions
    \/ WaitWhile
    \/ WaitPoll
    \/ ExecuteRetry
    \/ AthenaProgress

SpecQuery == InitQuery /\ [][NextQuery]_vars

\* wait_executions goes on polling, and every execution Athena accepted
\* reaches a final state
SpecQueryFair ==
    /\ SpecQuery
    /\ WF_vars(WaitWhile)
    /\ WF_vars(WaitPoll)
    /\ WF_vars(AthenaProgress)

(***************************************************************************)
(* Properties of the QueryManager (SpecQuery, SpecQueryFair)               *)
(***************************************************************************)
\* wait_executions is in its loop
C28_Waiting == qm_pc \in {"while", "for"}

C28_Step ==
    \* a first rejection begins the wait, and records nothing
    /\ (qm_pc = "idle" /\ n_rejected' # n_rejected) =>
          /\ C28_Waiting'
          /\ wait_from' = "execute_query"
          /\ execution_ids' = execution_ids
          /\ n_started' = n_started
    \* the wait ends, and the start is made again, when no execution is
    \* outstanding
    /\ (C28_Waiting /\ wait_from = "execute_query" /\ ~C28_Waiting') =>
          qm_pc' = "retry" /\ execution_ids' = {}
    /\ qm_pc' = "retry" => C28_Waiting \/ qm_pc = "retry"
    /\ qm_pc = "retry" => execution_ids = {}
    \* the second start ends the call
    /\ (qm_pc = "retry" /\ qm_pc' # "retry") =>
          /\ qm_pc' = "idle"
          /\ \/ /\ qm_result' = "started"
                /\ n_started' = n_started + 1
                /\ n_rejected' = n_rejected
                /\ execution_ids' = {n_started'}
                /\ query_state'[n_started'] = "QUEUED"
             \/ /\ qm_result' = "TooManyRequestsException"
                /\ n_rejected' = n_rejected + 1
                /\ n_started' = n_started
                /\ execution_ids' = {}
             \/ /\ qm_result' = "ClientError"
                /\ n_rejected' = n_rejected
                /\ n_started' = n_started
                /\ execution_ids' = {}

\* C28: when a start is rejected with TooManyRequests, execute_query waits
\* until no execution is outstanding and only then starts the query again,
\* once: an accepted start adds the new execution to the outstanding set,
\* and a second rejection reaches the caller with nothing recorded
C28_RetriesOnceAfterWait == [][C28_Step]_vars

C28_Witness ==
    /\ qm_pc = "idle"
    /\ qm_result = "TooManyRequestsException"
    /\ n_rejected = 2
    /\ n_started = 1
    /\ query_state[1] = "SUCCEEDED"
    /\ execution_ids = {}

\* The execution the step of the for loop looked at
C29_Polled == CHOOSE id \in pending : id \notin pending'

C29_Step ==
    \* the call returns when the set is empty
    /\ (C28_Waiting /\ ~C28_Waiting') =>
          /\ execution_ids = {}
          /\ execution_ids' = {}
          /\ qm_result' = "returned"
          /\ errors' = errors
    \* an execution leaves the set when it is seen in a final state
    /\ execution_ids' \subseteq execution_ids \/ ~C28_Waiting
    /\ (qm_pc = "for" /\ pending' # pending) =>
          /\ execution_ids' =
                IF query_state[C29_Polled] \in {"QUEUED", "RUNNING"}
                THEN execution_ids ELSE execution_ids \ {C29_Polled}
          /\ errors' =
                IF query_state[C29_Polled] = "FAILED"
                THEN Append(errors, StateChangeReason(C29_Polled))
                ELSE errors
    /\ (C28_Waiting /\ pending' = pending) =>
          execution_ids' = execution_ids /\ errors' = errors
    \* the errors are those of the executions seen FAILED in this call
    /\ ~C28_Waiting /\ C28_Waiting' => errors' = <<>>
    /\ C28_Waiting =>
          \A j, k \in 1..Len(errors) :
             /\ \E id \in DOMAIN query_state \ execution_ids :
                   /\ query_state[id] = "FAILED"
                   /\ errors[j] = StateChangeReason(id)
             /\ errors[j] = errors[k] => j = k
    \* a dry run
    /\ client = "none" =>
          /\ execution_ids' = {} /\ n_started' = 0 /\ query_state' = <<>>
          /\ ~C28_Waiting'
          /\ (qm_pc = "idle" /\ qm_result' = "returned") => errors' = <<>>

\* C29: wait_executions returns only when no execution is outstanding; an
\* execution leaves the set exactly when it is seen in a state other than
\* QUEUED and RUNNING; the list returned has one entry for each execution
\* seen FAILED during the call; the call ends provided every outstanding
\* execution reaches a final state.  In a dry run no query is started, the
\* set stays empty and the call returns the empty list at once.
C29_WaitReturnsWhenEmpty ==
    [][C29_Step]_vars /\ (C28_Waiting ~> ~C28_Waiting)

C29_Witness ==
    /\ qm_pc = "idle"
    /\ qm_result = "returned"
    /\ wait_from = "caller"
    /\ Len(errors) = 1
    /\ n_started = 2
    /\ query_state[1] = "CANCELLED"
    /\ query_state[2] = "FAILED"
    /\ execution_ids = {}

(***************************************************************************)
(* batch_to_datalake for one table (dbting/batch_to_datalake.py).  The     *)
(* partitions given are a list of pairs of key and value, in the order of  *)
(* the dictionary; its QueryManager is the one above.                      *)
(***************************************************************************)
\* partitions.get(key)
PartitionValue(parts, key) ==
    IF \E j \in 1..Len(parts) : parts[j][1] = key
    THEN parts[CHOOSE j \in 1..Len(parts) : parts[j][1] = key][2]
    ELSE None

\* lines 101-103: the partition keys declared for the table, as a list
TablePartitions(declared) ==
    IF IsStr(declared) THEN StripAll(Split(declared.s, ","))
    ELSE declared.v

\* No partition is taken to be missing
NothingMissing(keys, parts) == {}

\* lines 104-105: the positions of the declared keys that have no value
MissingPartitions(keys, parts) ==
    {j \in 1..Len(keys) : PartitionValue(parts, keys[j]) = None}

\* line 106: the message about the first of the keys at the positions
MissingPartition(keys, positions) ==
    <<"M","i","s","s","i","n","g"," ","p","a","r","t","i","t","i","o","n"," ">>
    \o keys[CHOOSE j \in positions : \A k \in positions : j <= k]

\* line 107: any(partitions.values())
AnyValue(parts) == \E j \in 1..Len(parts) : Truthy(parts[j][2])

\* "{}={}".format(k, v)
KeyEqualsValue(pair) == pair[1] \o <<"=">> \o pair[2].s

\* lines 110-116: the add_partition command
AddPartitionCommand(parts) ==
    << <<"g","l","u","e","t","t","a","l","a","x">>, <<"a","d","d","_","p","a","r","t","i","t","i","o","n">>, SourceSchema,
       <<"f","_","o","r","d","e","r","s">> >>
    \o Evaluated([j \in 1..Len(SelectSeq(parts, LAMBDA x : x[2] # None)) |->
          <<"-", "-">>
          \o KeyEqualsValue(SelectSeq(parts, LAMBDA x : x[2] # None)[j])])

\* lines 92 and 123: partitions if table_partitions else {}
PartitionsIfDeclared(declared, parts) ==
    IF Truthy(declared) THEN parts ELSE <<>>

\* prepare_location (lines 84-86)
prepare_location(location, parts) ==
    location \o
    JoinWith(<<"/">>,
             Evaluated([j \in 1..Len(SelectSeq(parts, LAMBDA x : Truthy(x[2]))) |->
                 KeyEqualsValue(SelectSeq(parts, LAMBDA x : Truthy(x[2]))[j])]))

\* The target location of the table in the mapping
TargetLocation == <<"s","3",":","/","/","d","/","f","/","o","r","d","e","r","s","/">>

\* The partitions a table declares, or the default the call was given
DeclaredPartitions ==
    { Lst(<<>>), Lst(<< <<"y","e","a","r">> >>),
      Lst(<< <<"y","e","a","r">>, <<"m","o","n","t","h">> >>),
      Txt(<<"y","e","a","r",","," ","m","o","n","t","h">>) }

\* The partitions the call was given
GivenPartitions ==
    { << <<<<"y","e","a","r">>, year>>, <<<<"m","o","n","t","h">>, month>> >> :
        year \in {None, Txt(<<"2","0","2","4">>)},
        month \in {None, Txt(<<"0","1">>)} }

BatchArgs ==
    [add_source_partition : BOOLEAN, dry_run : BOOLEAN,
     declared : DeclaredPartitions, partitions : GivenPartitions]

InitBatch ==
    /\ NoCompilation
    /\ b2d_pc = "start"
    /\ args \in BatchArgs
    /\ effects = <<>>
    /\ b2d_exc = NotRaised
    /\ NewQueryManager(IF args.dry_run THEN "none" ELSE "athena", "idle")

\* run (utils.py, lines 110-121) of a command, unless the run is dry: the
\* command ends well and the call goes on to the step then, or it fails
\* and the process exits
Run(step, detail, then) ==
    /\ effects' = Append(effects, [step |-> step, issued |-> ~args.dry_run,
                                   detail |-> detail])
    /\ \/ b2d_pc' = then /\ UNCHANGED b2d_exc
       \/ /\ ~args.dry_run
          /\ b2d_pc' = "exited"
          /\ b2d_exc' = Raised("SystemExit", <<"1">>)

\* lines 177-178 and 97-118
AddSourcePartition ==
    /\ b2d_pc = "start"
    /\ IF ~args.add_source_partition
       THEN b2d_pc' = "delete" /\ UNCHANGED <<effects, b2d_exc>>
       ELSE IF MissingPartitions(TablePartitions(args.declared),
                                 args.partitions) # {}
       THEN /\ b2d_pc' = "raised"
            /\ b2d_exc' = Raised("BatchToDatalakeException",
                                 MissingPartition(
                                     TablePartitions(args.declared),
                                     MissingPartitions(
                                         TablePartitions(args.declared),
                                         args.partitions)))
            /\ UNCHANGED effects
       ELSE IF ~AnyValue(args.partitions)
       THEN b2d_pc' = "delete" /\ UNCHANGED <<effects, b2d_exc>>
       ELSE Run("add_source_partition", AddPartitionCommand(args.partitions),
                "delete")
    /\ UNCHANGED <<args, qm_vars, run_vars>>

\* lines 179 and 88-96
DeleteFromS3 ==
    /\ b2d_pc = "delete"
    /\ Run("delete_from_s3_datalake",
           prepare_location(TargetLocation,
                            PartitionsIfDeclared(args.declared,
                                                 args.partitions)),
           "load")
    /\ UNCHANGED <<args, qm_vars, run_vars>>

\* lines 180 and 120-127: the query is rendered and execute_query called
Load ==
    /\ b2d_pc = "load"
    /\ effects' = Append(effects,
                         [step |-> "athena_batch_to_datalake",
                          issued |-> ~args.dry_run,
                          detail |-> SelectSeq(
                              PartitionsIfDeclared(args.declared,
                                                   args.partitions),
                              LAMBDA x : Truthy(x[2]))])
    /\ execute_query
    /\ b2d_pc' = "executing"
    /\ UNCHANGED <<args, b2d_exc, run_vars>>

\* lines 127-128: execute_query has ended, wait_executions is called
LoadWait ==
    /\ b2d_pc = "executing"
    /\ qm_pc = "idle"
    /\ IF qm_result \in {"ClientError", "TooManyRequestsException"}
       THEN /\ b2d_pc' = "raised"
            /\ b2d_exc' = Raised(qm_result, <<>>)
            /\ UNCHANGED qm_vars
       ELSE /\ wait_executions
            /\ b2d_pc' = "waiting"
            /\ UNCHANGED b2d_exc
    /\ UNCHANGED <<args, effects, run_vars>>

\* lines 128-130: wait_executions has returned its errors
LoadEnd ==
    /\ b2d_pc = "waiting"
    /\ qm_pc = "idle"
    /\ IF errors # <<>>
       THEN /\ b2d_pc' = "raised"
            /\ b2d_exc' = Raised("BatchToDatalakeException", errors[1])
       ELSE /\ b2d_pc' = "done"
            /\ UNCHANGED b2d_exc
    /\ UNCHANGED <<args, effects, qm_vars, run_vars>>

NextBatch ==
    \/ AddSourcePartition
    \/ DeleteFromS3
    \/ Load
    \/ LoadWait
    \/ LoadEnd
    \/ WaitWhile
    \/ WaitPoll
    \/ ExecuteRetry
    \/ AthenaProgress

SpecBatch == InitBatch /\ [][NextBatch]_vars

(***************************************************************************)
(* Properties of batch_to_datalake (SpecBatch)                             *)
(***************************************************************************)
C30_Steps == [j \in 1..Len(effects) |-> effects[j].step]

C30_IsPrefix(a, b) == Len(a) <= Len(b) /\ SubSeq(b, 1, Len(a)) = a

\* The partition keys a table declares
C30_Keys(declared) ==
    IF declared = Txt(<<"y","e","a","r",","," ","m","o","n","t","h">>) THEN << <<"y","e","a","r">>, <<"m","o","n","t","h">> >>
    ELSE declared.v

\* A declared key has no value among the partitions given
C30_KeyWithoutValue ==
    \E j \in 1..Len(C30_Keys(args.declared)) :
       \A k \in 1..Len(args.partitions) :
          args.partitions[k][1] = C30_Keys(args.declared)[j]
             => args.partitions[k][2] = None

C30_Ended == b2d_pc \in {"done", "raised", "exited"}

C30_Order ==
    \* registration, deletion, query: in this order
    /\ \/ C30_IsPrefix(C30_Steps, <<"add_source_partition",
                                   "delete_from_s3_datalake",
                                   "athena_batch_to_datalake">>)
       \/ C30_IsPrefix(C30_Steps, <<"delete_from_s3_datalake",
                                   "athena_batch_to_datalake">>)
    /\ "add_source_partition" \in {C30_Steps[j] : j \in 1..Len(effects)}
          => args.add_source_partition
    /\ (n_started > 0 \/ n_rejected > 0 \/ b2d_pc = "done") =>
          /\ Len(effects) >= 2
          /\ C30_Steps[Len(effects)] = "athena_batch_to_datalake"
          /\ C30_Steps[Len(effects) - 1] = "delete_from_s3_datalake"
    /\ \A j \in 1..Len(effects) : effects[j].issued = ~args.dry_run
    \* a declared key without value: nothing is deleted and nothing queried
    /\ (args.add_source_partition /\ C30_KeyWithoutValue) =>
          /\ b2d_pc \in {"start", "raised"}
          /\ effects = <<>>
          /\ n_started = 0 /\ n_rejected = 0 /\ qm_result = "none"
          /\ b2d_pc = "raised" =>
                /\ b2d_exc.type = "BatchToDatalakeException"
                /\ C30_IsPrefix(<<"M","i","s","s","i","n","g"," ","p","a","r","t","i","t","i","o","n"," ">>, b2d_exc.message)
    \* a query that ended FAILED
    /\ (C30_Ended /\ \E id \in DOMAIN query_state : query_state[id] = "FAILED")
          => /\ b2d_pc = "raised"
             /\ b2d_exc = Raised("BatchToDatalakeException", errors[1])
             /\ errors[1] = StateChangeReason(1)
    /\ b2d_pc = "done" =>
          \A id \in DOMAIN query_state :
             query_state[id] \in {"SUCCEEDED", "CANCELLED"}

\* C30: batch_to_datalake for one table registers the source partition
\* (only when add_source_partition is set), then deletes the target path,
\* then runs the load query; with add_source_partition set and a declared
\* partition key without value it raises BatchToDatalakeException before
\* any deletion or query, and a query that ends FAILED raises
\* BatchToDatalakeException with the first error
C30_FixedOrder == C30_Order

C30_Witness ==
    /\ b2d_pc = "raised"
    /\ b2d_exc = Raised("BatchToDatalakeException", <<"f","a","i","l","e","d"," ","1">>)
    /\ Len(effects) = 3
    /\ effects[1].step = "add_source_partition"
    /\ n_rejected = 1
    /\ query_state[1] = "FAILED"

=============================================================================
